---- MODULE Spec2Model ----
(***************************************************************************)
(* Verification model of the EcoWatt firmware core:                        *)
(*   - SampleBuffer        (cpp/src/acquisition_scheduler.cpp)             *)
(*   - DeltaCompression    (cpp/src/compression.cpp)                       *)
(*   - FOTAManager         (cpp-esp/src/fota_manager.cpp)                  *)
(*   - RemoteConfigHandler (cpp-esp/src/remote_config_handler.cpp)         *)
(*   - AcquisitionScheduler (cpp/src/acquisition_scheduler.cpp)            *)
(* Each subsystem has its own specification (SpecRing, SpecCodec, ...)     *)
(* over the shared variable tuple; a specification leaves the variables of *)
(* the other subsystems at their constructed values.                       *)
(***************************************************************************)
EXTENDS Integers, Sequences, FiniteSets, TLC

VARIABLES
    \* ---- SampleBuffer ----
    buffer_,      \* std::vector<AcquisitionSample> buffer_ (CAPACITY slots)
    head_,        \* size_t head_  : next position to write
    size_,        \* size_t size_  : current number of elements
    pushCount,    \* ghost: number of push() calls since construction / last clear()
    snapshot,     \* result of the getAllSamples() call when it is the last operation
    ringOp,       \* last SampleBuffer operation
    mutex_,       \* std::mutex mutex_: <<>> when free, <<t>> when thread t holds it
    ringThreads,  \* the threads calling the SampleBuffer: position and locals
    ringModel,    \* ghost: the samples a sequential buffer would hold
    ringCalls,    \* ghost: number of SampleBuffer calls started by the threads
    \* ---- DeltaCompression: varint / zigzag primitives ----
    word,         \* the 64-bit argument handed to encodeVarint / zigzagEncode
    wordBytes,    \* bytes appended by encodeVarint(word)
    wordBack,     \* result of decodeVarint on wordBytes
    wordZig,      \* result of zigzagEncode(word)
    wordUnzig,    \* result of zigzagDecode(wordZig)
    \* ---- DeltaCompression: compress / decompress ----
    txSamples,    \* the sample vector handed to compress()
    wire,         \* the bytes compress(txSamples) returned
    rxData,       \* the bytes handed to decompress()
    rxResult,     \* outcome of decompress(rxData)
    codecPc,      \* "input" | "compressed" | "truncated" | "decompressed"
    \* ---- FOTAManager ----
    fotaPc,              \* "boot": begin() not yet called since power-up | "running"
    security_,           \* SecurityLayer* security_ is non-null
    manifest_,           \* FOTAManifest manifest_
    progress_,           \* FOTAProgress progress_
    chunks_downloaded_,  \* std::vector<bool> chunks_downloaded_
    stateFile,           \* STATE_FILE (fota_state.json)
    firmwareFile,        \* FIRMWARE_FILE (scratch image)
    bootCountFile,       \* BOOT_COUNT_FILE
    otaPartition,        \* image written by Update and the partition selected for boot
    cloudManifest,       \* what the cloud answers to a manifest request
    fotaCall,            \* ghost: what the last FOTAManager call did
    \* ---- RemoteConfigHandler, ConfigManager, EcoWattDevice ----
    running_,            \* bool running_
    pollInterval_,       \* uint32_t pollInterval_
    http_,               \* EcoHttpClient* http_ is non-null
    onUpdateCallback_,   \* std::function<void()> onUpdateCallback_ is set
    acquisition_config_, \* ConfigManager::acquisition_config_
    schedulerConfig,     \* what scheduler_->updateConfig() was last handed
    pullCycle,           \* ghost: what the last checkForConfigUpdate() did
    \* ---- AcquisitionScheduler ----
    polling_active_,     \* std::atomic<bool> polling_active_
    stop_requested_,     \* std::atomic<bool> stop_requested_
    pollLoops,           \* the pollingLoop() threads started and not yet joined
    controllerPc,        \* the thread calling startPolling / stopPolling:
                         \* "ready" | "joining" (inside polling_thread_->join())
    register_configs_,   \* std::map register_configs_: address -> gain
    minimum_registers_,  \* std::vector<RegisterAddress> minimum_registers_
    config_,             \* AcquisitionConfig config_ of the scheduler
    sample_callbacks_,   \* std::vector<SampleCallback>: what each callback does
    error_callbacks_,    \* std::vector<ErrorCallback>: what each callback does
    statistics_,         \* AcquisitionStatistics statistics_
    circularSize,        \* circular_buffer_.size()
    pollLog,             \* ghost: the events of the latest poll cycle, in order
    cycles,              \* ghost: poll cycles started
    schedulerCall,       \* ghost: the last startPolling / stopPolling call
    system_clock,        \* std::chrono::system_clock::now(), in milliseconds
                         \* since the scheduler was constructed
    last_buffer_output_, \* time_point last_buffer_output_, same unit
    drainLog,            \* ghost: the times at which the buffer was cleared
    manifest_obj,        \* JsonObject manifest_obj of fetchManifest()
    wideManifest,        \* manifest_ with size, chunk_size and total_chunks
                         \* at their full width of 32 bits
    rleRun,              \* the (delta, count) handed to encodeDeltaRLE
    rleRunBytes,         \* the bytes encodeDeltaRLE appended
    rleRunBack,          \* what decodeDeltaRLE returned for them
    rleDeltas,           \* the deltas handed to encodeRLEArray
    rleArrayBytes,       \* the bytes encodeRLEArray appended
    rleArrayBack         \* what decodeRLEArray returned for them

ringVars == <<buffer_, head_, size_, pushCount, snapshot, ringOp,
              mutex_, ringThreads, ringModel, ringCalls>>

wordVars == <<word, wordBytes, wordBack, wordZig, wordUnzig>>

codecVars == <<txSamples, wire, rxData, rxResult, codecPc>>

fotaVars == <<fotaPc, security_, manifest_, progress_, chunks_downloaded_,
              stateFile, firmwareFile, bootCountFile, otaPartition,
              cloudManifest, fotaCall>>

configVars == <<running_, pollInterval_, http_, onUpdateCallback_,
                acquisition_config_, schedulerConfig, pullCycle>>

schedulerVars == <<polling_active_, stop_requested_, pollLoops, controllerPc,
                   register_configs_, minimum_registers_, config_, sample_callbacks_,
                   error_callbacks_, statistics_, circularSize, pollLog,
                   cycles, schedulerCall>>

clockVars == <<system_clock, last_buffer_output_, drainLog>>

manifestVars == <<manifest_obj, wideManifest>>

rleVars == <<rleRun, rleRunBytes, rleRunBack,
             rleDeltas, rleArrayBytes, rleArrayBack>>

\* What a SampleBuffer operation leaves alone, and likewise for the codec
\* primitives and the other subsystems.
ringOthers ==
    <<rleVars, manifestVars, clockVars, wordVars, codecVars, fotaVars, configVars, schedulerVars>>
wordOthers ==
    <<rleVars, manifestVars, clockVars, ringVars, codecVars, fotaVars, configVars, schedulerVars>>
codecOthers ==
    <<rleVars, manifestVars, clockVars, ringVars, wordVars, fotaVars, configVars, schedulerVars>>
fotaOthers ==
    <<rleVars, manifestVars, clockVars, ringVars, wordVars, codecVars, configVars, schedulerVars>>
configOthers ==
    <<rleVars, manifestVars, clockVars, ringVars, wordVars, codecVars, fotaVars, schedulerVars>>
schedulerOthers ==
    <<ringVars, wordVars, codecVars, fotaVars, configVars, clockVars,
      manifestVars, rleVars>>

vars == <<buffer_, head_, size_, pushCount, snapshot, ringOp,
          mutex_, ringThreads, ringModel, ringCalls,
          word, wordBytes, wordBack, wordZig, wordUnzig,
          txSamples, wire, rxData, rxResult, codecPc,
          fotaPc, security_, manifest_, progress_, chunks_downloaded_,
          stateFile, firmwareFile, bootCountFile, otaPartition,
          cloudManifest, fotaCall,
          running_, pollInterval_, http_, onUpdateCallback_,
          acquisition_config_, schedulerConfig, pullCycle,
          polling_active_, stop_requested_, pollLoops, controllerPc,
          register_configs_, minimum_registers_, config_, sample_callbacks_,
          error_callbacks_, statistics_, circularSize, pollLog,
          cycles, schedulerCall,
          system_clock, last_buffer_output_, drainLog,
          manifest_obj, wideManifest,
          rleRun, rleRunBytes, rleRunBack,
          rleDeltas, rleArrayBytes, rleArrayBack>>

Min(a, b) == IF a < b THEN a ELSE b

(***************************************************************************)
(*                              SampleBuffer                               *)
(***************************************************************************)
CAPACITY == 256

\* Number of push() calls explored between two clear() calls.
MaxPushes == 300

\* A slot that was never written holds a default-constructed sample.
NoSample == -1

\* The threads that call the buffer, and a thread that is in no call.
\*   pc      "idle", or the statement of push / getAllSamples / clear the
\*           thread executes next
\*   sample  the argument of push
\*   start, count   the locals of getAllSamples
\*   result  what the last getAllSamples of the thread returned
\*   last    the last call the thread completed
\*   seen    ghost: the contents a sequential buffer held at some time
\*           during the getAllSamples call in progress or just completed
Threads == {1, 2}
IdleThread ==
    [pc |-> "idle", sample |-> NoSample, start |-> 0, count |-> 0,
     result |-> <<>>, last |-> "none", seen |-> {}]

\* SampleBuffer() : head_(0), size_(0) { buffer_.resize(CAPACITY); }
RingConstructed ==
    /\ buffer_ = [i \in 0..(CAPACITY - 1) |-> NoSample]
    /\ head_ = 0
    /\ size_ = 0
    /\ pushCount = 0
    /\ snapshot = <<>>
    /\ ringOp = "construct"
    /\ mutex_ = <<>>
    /\ ringThreads = [t \in Threads |-> IdleThread]
    /\ ringModel = <<>>
    /\ ringCalls = 0

\* No codec call has been made.
\* No run and no array has been encoded.
RleIdle ==
    /\ rleRun = <<>>
    /\ rleRunBytes = <<>>
    /\ rleRunBack = <<>>
    /\ rleDeltas = <<>>
    /\ rleArrayBytes = <<>>
    /\ rleArrayBack = <<>>

WordIdle ==
    /\ word = <<>>
    /\ wordBytes = <<>>
    /\ wordBack = <<>>
    /\ wordZig = <<>>
    /\ wordUnzig = <<>>

CodecIdle ==
    /\ txSamples = <<>>
    /\ wire = <<>>
    /\ rxData = <<>>
    /\ rxResult = <<>>
    /\ codecPc = "idle"

(***************************************************************************)
(*                 FOTAManager: types and constructed state                *)
(***************************************************************************)
\* std::string hash values: the empty string, or the 64 hex characters of
\* a digest in lower or upper case.  A digest is identified with the bytes
\* it was computed from.
NoHash == [case |-> "empty", digest |-> <<>>]

\* FOTAManifest(): chunk_size defaults to 1024, everything else is empty.
DefaultManifest ==
    [version |-> "", size |-> 0, hash |-> NoHash, chunk_size |-> 1024,
     total_chunks |-> 0, valid |-> FALSE]

\* FOTAProgress()
DefaultProgress ==
    [state |-> "IDLE", current_version |-> "", new_version |-> "",
     chunks_received |-> 0, bytes_received |-> 0, total_chunks |-> 0,
     total_bytes |-> 0, verified |-> FALSE, error_message |-> ""]

NoChunk == -1

\* A file that does not exist.
NoStateFile ==
    [exists |-> FALSE, state |-> "IDLE", version |-> "", chunks_received |-> 0,
     total_chunks |-> 0, verified |-> FALSE, chunks |-> <<>>]
NoFirmwareFile == [exists |-> FALSE, bytes |-> <<>>]
NoBootCountFile == [exists |-> FALSE, count |-> 0]

\* Nothing written by Update; the device boots the partition it shipped with.
FactoryState == [image |-> <<>>, boot |-> "running"]

\* No FOTAManager call has been made.
\*   op            the call
\*   states        the states handed to setState(), in order
\*   requested     the chunk number handed to fetchChunk(), if any
\*   chunksBefore  chunks_downloaded_ when the call started
\*   resumed       begin() restored a Downloading state with a chunk missing
\*   afterResume   the call is the first one after such a begin()
\*   verifyRan, total_read, hash_hex   what verifyFirmware() computed
\*   applyRun      applyUpdate() was called
\*   forged        the chunk reply parsed, but its chunk_number was not the
\*                 one requested or its mac was not the HMAC of its data
\*   path          how far the calls so far have followed the sequence
\*                 checkForUpdate, startDownload, processChunk... on good
\*                 replies: the number of calls, the states visited (a state
\*                 set again while current counts once) and the chunks
\*                 requested
\*   applied       applyUpdate() rebooted into a new image and only
\*                 begin() and losses of power have followed
\*   boots         the number of begin() calls since, while applied
\*   steps         what a call of applyUpdate() taken statement by
\*                 statement has done after Update.begin(), in order
\*   bootBefore    the boot partition when such a call started
NoPath == [step |-> 0, states |-> <<>>, requests |-> <<>>]
NoCall ==
    [op |-> "construct", states |-> <<>>, requested |-> NoChunk,
     chunksBefore |-> <<>>, resumed |-> FALSE, afterResume |-> FALSE,
     verifyRan |-> FALSE, total_read |-> 0, hash_hex |-> NoHash,
     applyRun |-> FALSE, forged |-> FALSE, path |-> NoPath,
     applied |-> FALSE, boots |-> 0, steps |-> <<>>,
     bootBefore |-> "running"]

\* FOTAManager::FOTAManager(http, security, cloud_base_url) on a device with
\* an empty filesystem.
FotaMemoryConstructed ==
    /\ manifest_ = DefaultManifest
    /\ progress_ = DefaultProgress
    /\ chunks_downloaded_ = <<>>

\* No manifest has been extracted at full width.
\* A member that is absent is <<>>, a member holding the integer n is <<n>>.
NoManifestObject ==
    [version |-> "", size |-> <<>>, hash |-> NoHash, chunk_size |-> <<>>]
NoWord == [hi |-> 0, lo |-> 0]
ManifestIdle ==
    /\ manifest_obj = NoManifestObject
    /\ wideManifest = [version |-> "", size |-> NoWord, hash |-> NoHash,
                       chunk_size |-> NoWord, total_chunks |-> NoWord,
                       valid |-> FALSE, extracted |-> FALSE]

FotaConstructed ==
    /\ fotaPc = "boot"
    /\ ManifestIdle
    /\ FotaMemoryConstructed
    /\ stateFile = NoStateFile
    /\ firmwareFile = NoFirmwareFile
    /\ bootCountFile = NoBootCountFile
    /\ otaPartition = FactoryState
    /\ fotaCall = NoCall

\* A reply to GET /api/inverter/fota/manifest.
ManifestReply(kind, version, size, hash, chunk_size) ==
    [kind |-> kind, version |-> version, size |-> size, hash |-> hash,
     chunk_size |-> chunk_size]

\* The body carries no fota.manifest.
NoManifest == ManifestReply("none", "", 0, NoHash, 0)

FotaIdle == FotaConstructed /\ security_ = TRUE /\ cloudManifest = NoManifest

(***************************************************************************)
(*          RemoteConfigHandler: types and constructed state               *)
(***************************************************************************)
\* ConfigManager::ConfigManager(): acquisition_config_
DefaultPollingInterval == 5000
DefaultAcquisitionConfig ==
    [polling_interval_ms |-> DefaultPollingInterval,
     minimum_registers |-> <<0, 1, 2, 3, 4, 5, 6, 7, 8, 9>>,
     background_polling |-> TRUE]

\* uint32_t pollInterval_ = 60000;
DefaultPollInterval == 60000

\* A reply to GET config_endpoint: the request fails ("error"), the body
\* is not JSON ("unparsable"), it has no config_update object
\* ("no_update"), or it has one ("update") with or without nonce,
\* sampling_interval (seconds) and registers (a JSON array).
PullReply(kind, has_nonce, nonce, has_interval, seconds, has_registers, registers) ==
    [kind |-> kind, has_nonce |-> has_nonce, nonce |-> nonce,
     has_interval |-> has_interval, seconds |-> seconds,
     has_registers |-> has_registers, registers |-> registers]
NoReply == PullReply("none", FALSE, 0, FALSE, 0, FALSE, <<>>)

\* ConfigUpdateRequest and ConfigUpdateAck before they are filled in.
NoRequest ==
    [nonce |-> 0, timestamp |-> 0,
     has_sampling_interval |-> FALSE, sampling_interval_ms |-> 0,
     has_registers |-> FALSE, registers |-> <<>>]
NoAck ==
    [nonce |-> 0, timestamp |-> 0, all_success |-> TRUE,
     accepted |-> <<>>, rejected |-> <<>>, unchanged |-> <<>>]

\* No pull cycle has run.
\*   op          the call
\*   reply       the reply to the GET, if one was made
\*   parsed      parseConfigUpdateRequest() returned true
\*   request     the request it filled in
\*   ack         what applyConfigUpdate() returned
\*   posts       the bodies POSTed to config_endpoint + "/ack", each with
\*               whether the POST succeeded
\*   events      the GET, the POSTs and the callback invocations, in order
\*   registered  onUpdateCallback_ was set during the cycle
NoCycle ==
    [op |-> "construct", reply |-> NoReply, parsed |-> FALSE,
     request |-> NoRequest, ack |-> NoAck, posts |-> <<>>, events |-> <<>>,
     registered |-> FALSE]

\* scheduler_->updateConfig(minimum_registers.data(), size, polling_interval_ms)
updateConfig(config) ==
    [registers |-> config.minimum_registers,
     interval_ms |-> config.polling_interval_ms]

\* RemoteConfigHandler::RemoteConfigHandler(config, http) in
\* EcoWattDevice::setup(), after the scheduler was handed the configuration.
ConfigConstructed ==
    /\ running_ = FALSE
    /\ pollInterval_ = DefaultPollInterval
    /\ onUpdateCallback_ = FALSE
    /\ acquisition_config_ = DefaultAcquisitionConfig
    /\ schedulerConfig = updateConfig(DefaultAcquisitionConfig)
    /\ pullCycle = NoCycle

ConfigIdle == ConfigConstructed /\ http_ = TRUE

(***************************************************************************)
(*          AcquisitionScheduler: types and constructed state              *)
(***************************************************************************)
\* AcquisitionStatistics{}
NoStatistics ==
    [total_polls |-> 0, successful_polls |-> 0, failed_polls |-> 0,
     last_error |-> ""]

\* AcquisitionScheduler::AcquisitionScheduler(protocol_adapter, config):
\* no thread, no register configuration, no callback, an empty buffer;
\* minimum_registers_ is what the configuration holds.
SchedulerMemoryConstructed ==
    /\ polling_active_ = FALSE
    /\ stop_requested_ = FALSE
    /\ pollLoops = <<>>
    /\ controllerPc = "ready"
    /\ register_configs_ = <<>>
    /\ sample_callbacks_ = <<>>
    /\ error_callbacks_ = <<>>
    /\ statistics_ = NoStatistics
    /\ circularSize = 0
    /\ pollLog = <<>>
    /\ cycles = 0
    /\ schedulerCall = [op |-> "construct", redundant |-> FALSE]
    /\ system_clock = 0
    /\ last_buffer_output_ = system_clock
    /\ drainLog = <<>>

\* AcquisitionConfig as the scheduler keeps it.
SchedulerConfig(polling_interval, minimum_registers) ==
    [polling_interval |-> polling_interval,
     minimum_registers |-> minimum_registers]

SchedulerIdle ==
    /\ SchedulerMemoryConstructed
    /\ minimum_registers_ = <<>>
    /\ config_ = SchedulerConfig(DefaultPollingInterval, <<>>)

RingInit ==
    RingConstructed /\ RleIdle /\ WordIdle /\ CodecIdle /\ FotaIdle /\ ConfigIdle
    /\ SchedulerIdle

\* if (size_ < CAPACITY) size_++;
GrowSizeUnbounded(sz) == sz + 1
GrowSize(sz) == IF sz < CAPACITY THEN sz + 1 ELSE sz

\* head_ = (head_ + 1) % CAPACITY;
AdvanceHeadNoWrap(h) == h + 1
AdvanceHead(h) == (h + 1) % CAPACITY

\* void SampleBuffer::push(const AcquisitionSample& sample)
\* The pushed sample carries its sequence number since the last clear().
push(sample) ==
    /\ buffer_' = [buffer_ EXCEPT ![head_] = sample]
    /\ head_' = AdvanceHead(head_)
    /\ size_' = GrowSize(size_)

Push ==
    /\ pushCount < MaxPushes
    /\ push(pushCount)
    /\ pushCount' = pushCount + 1
    /\ snapshot' = <<>>
    /\ ringOp' = "push"
    /\ UNCHANGED <<mutex_, ringThreads, ringModel, ringCalls>>
    /\ UNCHANGED ringOthers

\* size_t start = (size_ == CAPACITY) ? head_ : 0;
SnapshotStartAlwaysHead == head_
SnapshotStart == IF size_ = CAPACITY THEN head_ ELSE 0

\* std::vector<AcquisitionSample> SampleBuffer::getAllSamples() const
getAllSamples ==
    IF size_ = 0 THEN <<>>
    ELSE [i \in 1..size_ |-> buffer_[(SnapshotStart + (i - 1)) % CAPACITY]]

GetAllSamples ==
    /\ snapshot' = getAllSamples
    /\ ringOp' = "getAllSamples"
    /\ UNCHANGED <<buffer_, head_, size_, pushCount>>
    /\ UNCHANGED <<mutex_, ringThreads, ringModel, ringCalls>>
    /\ UNCHANGED ringOthers

\* void SampleBuffer::clear()
ClearKeepHead == head_
ClearHead == 0

Clear ==
    /\ size_' = 0
    /\ head_' = ClearHead
    /\ pushCount' = 0
    /\ snapshot' = <<>>
    /\ ringOp' = "clear"
    /\ UNCHANGED buffer_
    /\ UNCHANGED <<mutex_, ringThreads, ringModel, ringCalls>>
    /\ UNCHANGED ringOthers

RingNext == Push \/ GetAllSamples \/ Clear

SpecRing == RingInit /\ [][RingNext]_vars

\* C1: after any sequence of push and clear, size = min(pushes since the
\* last clear, CAPACITY), getAllSamples() has exactly size elements,
\* head < CAPACITY, size <= CAPACITY, the oldest live sample sits at index
\* (head - size) mod CAPACITY, and clear() leaves size = 0 and head = 0.
C1_RingBounds ==
    /\ size_ = Min(pushCount, CAPACITY)
    /\ Len(getAllSamples) = size_
    /\ head_ \in 0..(CAPACITY - 1)
    /\ size_ <= CAPACITY
    /\ size_ > 0 => buffer_[(head_ - size_) % CAPACITY] = pushCount - size_
    /\ ringOp = "clear" => (size_ = 0 /\ head_ = 0)

C1_Witness ==
    /\ pushCount = CAPACITY + 3
    /\ size_ = CAPACITY
    /\ head_ = 3
    /\ buffer_[0] = CAPACITY

\* C2: getAllSamples() returns the live samples in push order, oldest
\* first; after more than CAPACITY pushes exactly the last CAPACITY pushed
\* samples are retained, in order.
C2_RingOrder ==
    ringOp = "getAllSamples" =>
        /\ Len(snapshot) = Min(pushCount, CAPACITY)
        /\ \A i \in 1..Len(snapshot) :
              snapshot[i] = pushCount - Len(snapshot) + (i - 1)

C2_Witness ==
    /\ ringOp = "getAllSamples"
    /\ pushCount = 300
    /\ Len(snapshot) = 256
    /\ snapshot[1] = 44
    /\ snapshot[256] = 299

(***************************************************************************)
(*            64-bit words (uint64_t / int64_t), two's complement          *)
(* A word is the sequence of its ten base-128 digits, least significant    *)
(* first: digit i (1..9) holds bits 7(i-1) .. 7i-1 and digit 10 holds bit  *)
(* 63 alone, so every operation below is exact modulo 2^64.                *)
(***************************************************************************)
WordBits == 64

GroupBits == 7

Groups == 1..10

Pow2(n) == 2 ^ n

\* Number of values of digit i: 128, and 2 for the digit holding bit 63.
GroupLimit(i) == IF i = 10 THEN 2 ELSE 128

\* static_cast<uint64_t>(n) for 0 <= n < 2^31
FromNat(n) ==
    <<n % 128, (n \div 128) % 128, (n \div 16384) % 128, (n \div 2097152) % 128,
      (n \div 268435456) % 128, 0, 0, 0, 0, 0>>

Zero64 == <<0, 0, 0, 0, 0, 0, 0, 0, 0, 0>>
One64 == <<1, 0, 0, 0, 0, 0, 0, 0, 0, 0>>

\* Bit k (0..63) of a word.
BitOf(a, k) == (a[(k \div GroupBits) + 1] \div Pow2(k % GroupBits)) % 2

\* Digit i of the word with exactly the bits k for which Set(k) holds.
DigitOfBits(Set(_), i) ==
    IF i = 10 THEN (IF Set(63) THEN 1 ELSE 0)
    ELSE (IF Set(7 * i - 7) THEN 1 ELSE 0) + (IF Set(7 * i - 6) THEN 2 ELSE 0)
         + (IF Set(7 * i - 5) THEN 4 ELSE 0) + (IF Set(7 * i - 4) THEN 8 ELSE 0)
         + (IF Set(7 * i - 3) THEN 16 ELSE 0) + (IF Set(7 * i - 2) THEN 32 ELSE 0)
         + (IF Set(7 * i - 1) THEN 64 ELSE 0)

\* The word with exactly the bits k in 0..63 for which Set(k) holds.
WordOfBits(Set(_)) == [i \in Groups |-> DigitOfBits(Set, i)]

\* Bitwise operations on two digits.
RECURSIVE AndDigit(_, _)
AndDigit(x, y) ==
    IF x = 0 \/ y = 0 THEN 0
    ELSE (x % 2) * (y % 2) + 2 * AndDigit(x \div 2, y \div 2)

XorDigit(x, y) == (x + y) - 2 * AndDigit(x, y)
OrDigit(x, y) == (x + y) - AndDigit(x, y)

Not64(a) ==
    <<127 - a[1], 127 - a[2], 127 - a[3], 127 - a[4], 127 - a[5],
      127 - a[6], 127 - a[7], 127 - a[8], 127 - a[9], 1 - a[10]>>
Xor64(a, b) ==
    <<XorDigit(a[1], b[1]), XorDigit(a[2], b[2]), XorDigit(a[3], b[3]),
      XorDigit(a[4], b[4]), XorDigit(a[5], b[5]), XorDigit(a[6], b[6]),
      XorDigit(a[7], b[7]), XorDigit(a[8], b[8]), XorDigit(a[9], b[9]),
      XorDigit(a[10], b[10])>>
And64(a, b) ==
    <<AndDigit(a[1], b[1]), AndDigit(a[2], b[2]), AndDigit(a[3], b[3]),
      AndDigit(a[4], b[4]), AndDigit(a[5], b[5]), AndDigit(a[6], b[6]),
      AndDigit(a[7], b[7]), AndDigit(a[8], b[8]), AndDigit(a[9], b[9]),
      AndDigit(a[10], b[10])>>
Or64(a, b) ==
    IF a = Zero64 THEN b
    ELSE <<OrDigit(a[1], b[1]), OrDigit(a[2], b[2]), OrDigit(a[3], b[3]),
           OrDigit(a[4], b[4]), OrDigit(a[5], b[5]), OrDigit(a[6], b[6]),
           OrDigit(a[7], b[7]), OrDigit(a[8], b[8]), OrDigit(a[9], b[9]),
           OrDigit(a[10], b[10])>>

\* Digit i of a, 0 outside 1..10.
DigitOrZero(a, i) == IF i \in Groups THEN a[i] ELSE 0

\* Digit i of a << (7q + r) and of a >> (7q + r), 0 <= r < 7.
ShlDigit(a, q, r, i) ==
    (((DigitOrZero(a, i - q) * Pow2(r)) % 128)
     + (DigitOrZero(a, i - q - 1) \div Pow2(GroupBits - r))) % GroupLimit(i)

ShrDigit(a, q, r, i) ==
    ((DigitOrZero(a, i + q) \div Pow2(r))
     + ((DigitOrZero(a, i + q + 1) % Pow2(r)) * Pow2(GroupBits - r))) % GroupLimit(i)

ShlDigits(a, q, r) ==
    <<ShlDigit(a, q, r, 1), ShlDigit(a, q, r, 2), ShlDigit(a, q, r, 3),
      ShlDigit(a, q, r, 4), ShlDigit(a, q, r, 5), ShlDigit(a, q, r, 6),
      ShlDigit(a, q, r, 7), ShlDigit(a, q, r, 8), ShlDigit(a, q, r, 9),
      ShlDigit(a, q, r, 10)>>

ShrDigits(a, q, r) ==
    <<ShrDigit(a, q, r, 1), ShrDigit(a, q, r, 2), ShrDigit(a, q, r, 3),
      ShrDigit(a, q, r, 4), ShrDigit(a, q, r, 5), ShrDigit(a, q, r, 6),
      ShrDigit(a, q, r, 7), ShrDigit(a, q, r, 8), ShrDigit(a, q, r, 9),
      ShrDigit(a, q, r, 10)>>

\* a << s and a >> s on uint64_t, 0 <= s < 64.
Shl64(a, s) == IF s = 0 THEN a ELSE ShlDigits(a, s \div GroupBits, s % GroupBits)

Shr64(a, s) == ShrDigits(a, s \div GroupBits, s % GroupBits)

IsNegative(a) == a[10] = 1

\* a >> s on int64_t (sign-propagating)
Sar64(a, s) == IF IsNegative(a) THEN Not64(Shr64(Not64(a), s)) ELSE Shr64(a, s)

\* a + b modulo 2^64: the carry ripples from digit 1 upwards.
RECURSIVE AddFrom(_, _, _, _)
AddFrom(a, b, i, carry) ==
    IF i > 10 THEN <<>>
    ELSE LET t == a[i] + b[i] + carry
         IN <<t % GroupLimit(i)>> \o AddFrom(a, b, i + 1, t \div GroupLimit(i))

Add64(a, b) == AddFrom(a, b, 1, 0)
Neg64(a) == Add64(Not64(a), One64)
Sub64(a, b) == Add64(a, Neg64(b))

\* static_cast<int64_t>(n) for -2^31 < n < 2^31
FromInt(n) == IF n >= 0 THEN FromNat(n) ELSE Neg64(FromNat(0 - n))

\* The value of the n lowest bits of a from digit i upwards (n <= 31 - 7(i-1)).
RECURSIVE LowBitsFrom(_, _, _)
LowBitsFrom(a, i, n) ==
    IF n <= 0 THEN 0
    ELSE IF n >= GroupBits THEN a[i] + 128 * LowBitsFrom(a, i + 1, n - GroupBits)
    ELSE a[i] % Pow2(n)

LowBits(a, n) == LowBitsFrom(a, 1, n)

\* True when the unsigned value fits in 30 bits / the signed value in 31.
FitsNat(a) == Shr64(a, 30) = Zero64
FitsInt(a) == Sar64(a, 30) \in {Zero64, Not64(Zero64)}

ToNat(a) == LowBits(a, 30)
ToInt(a) == IF IsNegative(a) THEN 0 - ToNat(Neg64(a)) ELSE ToNat(a)

(***************************************************************************)
(*                DeltaCompression: varint and zigzag                      *)
(***************************************************************************)
\* value >= 0x80
HasMoreGroupsStrict(value) == Shr64(value, 7) # Zero64 /\ value # FromNat(128)
HasMoreGroups(value) == Shr64(value, 7) # Zero64

\* void DeltaCompression::encodeVarint(uint64_t value, std::vector<uint8_t>& output)
\* The result is the sequence of bytes appended to output.
RECURSIVE encodeVarint(_)
encodeVarint(value) ==
    IF HasMoreGroups(value)
    THEN <<LowBits(value, 7) + 128>> \o encodeVarint(Shr64(value, 7))
    ELSE <<LowBits(value, 7)>>

\* uint64_t DeltaCompression::decodeVarint(const std::vector<uint8_t>& data, size_t& offset)
\* data is 1-indexed here, offset counts consumed bytes as in the source.
\* The result carries the returned value, the updated offset and whether
\* std::runtime_error("Invalid varint encoding") was thrown.
RECURSIVE decodeVarintLoop(_, _, _, _)
decodeVarintLoop(data, offset, result, shift) ==
    IF offset >= Len(data)
    THEN [value |-> result, offset |-> offset, thrown |-> FALSE]
    ELSE LET byte == data[offset + 1]
             merged == Or64(result, Shl64(FromNat(byte % 128), shift))
         IN IF byte < 128
            THEN [value |-> merged, offset |-> offset + 1, thrown |-> FALSE]
            ELSE IF shift + 7 >= 64
                 THEN [value |-> merged, offset |-> offset + 1, thrown |-> TRUE]
                 ELSE decodeVarintLoop(data, offset + 1, merged, shift + 7)

decodeVarint(data, offset) == decodeVarintLoop(data, offset, Zero64, 0)

\* uint64_t DeltaCompression::zigzagEncode(int64_t delta)
zigzagEncode(delta) == Xor64(Shl64(delta, 1), Sar64(delta, 63))

\* int64_t DeltaCompression::zigzagDecode(uint64_t encoded)
UnsignedHalfArithmetic(encoded) == Sar64(encoded, 1)
UnsignedHalf(encoded) == Shr64(encoded, 1)

zigzagDecode(encoded) ==
    Xor64(UnsignedHalf(encoded), Neg64(And64(encoded, One64)))

\* 64-bit arguments explored: single bits, runs of low ones, runs of high
\* ones, and the small values around the one-byte varint boundary.
WordSamples ==
    {Shl64(One64, n) : n \in 0..(WordBits - 1)}
    \cup {Not64(Shl64(Not64(Zero64), n)) : n \in 0..(WordBits - 1)}
    \cup {Shl64(Not64(Zero64), n) : n \in 0..(WordBits - 1)}
    \cup {WordOfBits(LAMBDA k : k % 2 = p) : p \in 0..1}
    \cup {FromNat(n) : n \in 120..136}
    \cup {FromInt(0 - n) : n \in 1..5}

WordInit ==
    /\ RingConstructed
    /\ RleIdle
    /\ CodecIdle
    /\ FotaIdle
    /\ ConfigIdle
    /\ SchedulerIdle
    /\ word \in WordSamples
    /\ wordBytes = <<>>
    /\ wordBack = <<>>
    /\ wordZig = <<>>
    /\ wordUnzig = <<>>

EncodeVarint ==
    /\ wordBytes = <<>>
    /\ wordBytes' = encodeVarint(word)
    /\ UNCHANGED <<word, wordBack, wordZig, wordUnzig>>
    /\ UNCHANGED wordOthers

DecodeVarint ==
    /\ wordBytes # <<>>
    /\ wordBack = <<>>
    /\ wordBack' = <<decodeVarint(wordBytes, 0)>>
    /\ UNCHANGED <<word, wordBytes, wordZig, wordUnzig>>
    /\ UNCHANGED wordOthers

ZigzagEncode ==
    /\ wordZig = <<>>
    /\ wordZig' = <<zigzagEncode(word)>>
    /\ UNCHANGED <<word, wordBytes, wordBack, wordUnzig>>
    /\ UNCHANGED wordOthers

ZigzagDecode ==
    /\ wordZig # <<>>
    /\ wordUnzig = <<>>
    /\ wordUnzig' = <<zigzagDecode(wordZig[1])>>
    /\ UNCHANGED <<word, wordBytes, wordBack, wordZig>>
    /\ UNCHANGED wordOthers

WordNext == EncodeVarint \/ DecodeVarint \/ ZigzagEncode \/ ZigzagDecode

SpecWord == WordInit /\ [][WordNext]_vars

\* C7: for every unsigned 64-bit u, decodeVarint(encodeVarint(u)) = u, and
\* the decoder's offset advances by exactly the number of bytes the encoder
\* wrote, which is at most 10.
C7_VarintRoundTrip ==
    /\ Len(wordBytes) <= 10
    /\ wordBack # <<>> =>
          /\ ~wordBack[1].thrown
          /\ wordBack[1].value = word
          /\ wordBack[1].offset = Len(wordBytes)

C7_Witness ==
    /\ wordBack # <<>>
    /\ word = Not64(Zero64)
    /\ Len(wordBytes) = 10
    /\ wordBytes[10] = 1
    /\ wordBack[1].value = word

\* C8: for every signed 64-bit i, zigzagDecode(zigzagEncode(i)) = i, where
\* zigzagEncode(i) = (i << 1) XOR (i >> 63) modulo 2^64.
C8_ZigzagRoundTrip ==
    /\ wordZig # <<>> =>
          wordZig[1] = WordOfBits(LAMBDA k :
                          (IF k = 0 THEN 0 ELSE BitOf(word, k - 1))
                          # BitOf(word, WordBits - 1))
    /\ wordUnzig # <<>> => wordUnzig[1] = word

C8_Witness ==
    /\ wordUnzig # <<>>
    /\ word = Shl64(One64, WordBits - 1)
    /\ wordZig[1] = Not64(Zero64)
    /\ wordUnzig[1] = word

(***************************************************************************)
(*                 AcquisitionSample and its field types                   *)
(***************************************************************************)
\* RegisterAddress is an 8-bit unsigned integer, RegisterValue a 32-bit
\* signed integer holding the signed view of a 16-bit register.
AddressBits == 8
ValueBits == 32

\* static_cast<RegisterAddress>(w)
CastAddress(w) == LowBits(w, AddressBits)

\* static_cast<RegisterValue>(w)
CastValue(w) ==
    IF BitOf(w, ValueBits - 1) = 1
    THEN (LowBits(w, ValueBits - 1) - Pow2(ValueBits - 2)) - Pow2(ValueBits - 2)
    ELSE LowBits(w, ValueBits - 1)

(***************************************************************************)
(* scaled_value is an IEEE-754 binary64 double.  Two kinds of doubles      *)
(* occur: the inputs, taken here as exact multiples of 1/512               *)
(* ("dyadic", num/512), and the decoder's outputs                          *)
(* static_cast<double>(k) / 1000000.0, the double nearest to k/10^6        *)
(* ("quot", num = k).                                                      *)
(***************************************************************************)
Dyadic(n) == [kind |-> "dyadic", num |-> n]
Quot(k) == [kind |-> "quot", num |-> k]

Million == 1000000

\* Integer division rounding toward zero, as static_cast<int64_t>(double).
TruncDiv(a, b) == IF a >= 0 THEN a \div b ELSE 0 - ((0 - a) \div b)

\* Integer division rounding half away from zero, as std::llround.
RoundDiv(a, b) == IF a >= 0 THEN (2 * a + b) \div (2 * b)
                  ELSE 0 - ((2 * (0 - a) + b) \div (2 * b))

\* Doublings of x until it reaches 10^6 (x > 0).
RECURSIVE DoublingsUp(_)
DoublingsUp(x) == IF x >= Million THEN 0 ELSE 1 + DoublingsUp(2 * x)

\* Halvings of k until it drops below 2 * 10^6.
RECURSIVE HalvingsDown(_, _)
HalvingsDown(k, lim) == IF k >= 2 * lim THEN 1 + HalvingsDown(k, 2 * lim) ELSE 0

\* (x * 2^e) mod 10^6
RECURSIVE ShiftMod(_, _)
ShiftMod(x, e) ==
    IF e >= 10 THEN ShiftMod((1024 * x) % Million, e - 10)
    ELSE (Pow2(e) * x) % Million

\* static_cast<int64_t>((static_cast<double>(k) / 1000000.0) * 1000000)
\* for 0 < k < 2^31, in round-to-nearest-even binary64 arithmetic.
\* With e the exponent that puts the quotient's significand
\* q = RN(k * 2^e / 10^6) in [2^52, 2^53), q * 10^6 = k * 2^e - R (rounded
\* down) or + (10^6 - R) (rounded up), R = k * 2^e mod 10^6.  The product
\* q * 10^6 / 2^e = k -+ R / 2^e is rounded to 53 bits again: it falls to
\* the double below k, and truncation then yields k - 1, exactly when the
\* quotient was rounded down by more than half the spacing of the doubles
\* below k, which is 2^18 in units of 2^-e when k * 2^e < 2^72 or k is a
\* power of two, and 2^19 (never exceeded, R < 10^6 / 2) otherwise.
QuotTimesMillionTrunc(k) ==
    LET up == DoublingsUp(k)
        down == HalvingsDown(k, Million)
        e == 52 + up - down
        below == IF down = 0 THEN k * Pow2(up) < Pow2(20)
                 ELSE k < Pow2(20 + down)
        isPow2 == \E j \in 0..30 : k = Pow2(j)
        R == ShiftMod(k % Million, e)
        threshold == IF below \/ isPow2 THEN Pow2(18) ELSE Pow2(19)
    IN IF 2 * R < Million /\ R > threshold THEN k - 1 ELSE k

\* static_cast<int64_t>(scaled_value * 1000000)
\* An input num/512 times 10^6 is num * 15625 / 8, exact in binary64.
ScaledFixedRounded(d) ==
    IF d.kind = "dyadic" THEN RoundDiv(d.num * 15625, 8)
    ELSE d.num
ScaledFixed(d) ==
    IF d.kind = "dyadic" THEN TruncDiv(d.num * 15625, 8)
    ELSE IF d.num = 0 THEN 0
    ELSE IF d.num > 0 THEN QuotTimesMillionTrunc(d.num)
    ELSE 0 - QuotTimesMillionTrunc(0 - d.num)

\* The value of a double in units of 1 / (8 * 10^6); exact for inputs, and
\* for decoder outputs off by the binary64 rounding of k / 10^6 only
\* (less than 10^-9 of a unit).
InEighthMicros(d) == IF d.kind = "dyadic" THEN d.num * 15625 ELSE 8 * d.num

(***************************************************************************)
(*                     DeltaCompression::compress                          *)
(***************************************************************************)
\* 0x8000000000000000ULL and 0x7FFFFFFFFFFFFFFFULL
RLEMarker == Shl64(One64, WordBits - 1)
RLEMask == Not64(RLEMarker)

\* encodeVarint(str.length(), compressed); for (char c : str) compressed.push_back(c);
encodeString(str) == encodeVarint(FromNat(Len(str))) \o str

\* void DeltaCompression::encodeDeltaRLE(int64_t delta, size_t count, std::vector<uint8_t>& output)
encodeDeltaRLE(delta, count) ==
    LET encoded_delta == zigzagEncode(delta)
    IN IF count > 1
       THEN encodeVarint(Or64(encoded_delta, RLEMarker)) \o encodeVarint(FromNat(count))
       ELSE encodeVarint(And64(encoded_delta, RLEMask))

\* while (i + run_length < deltas.size() && deltas[i + run_length] == current_delta) run_length++;
\* (deltas is 1-indexed here)
RECURSIVE runLength(_, _, _)
runLength(deltas, i, run_length) ==
    IF i + run_length <= Len(deltas) /\ deltas[i + run_length] = deltas[i]
    THEN runLength(deltas, i, run_length + 1)
    ELSE run_length

RECURSIVE encodeRuns(_, _)
encodeRuns(deltas, i) ==
    IF i > Len(deltas) THEN <<>>
    ELSE LET run_length == runLength(deltas, i, 1)
         IN encodeDeltaRLE(deltas[i], run_length) \o encodeRuns(deltas, i + run_length)

\* void DeltaCompression::encodeRLEArray(const std::vector<int64_t>& deltas, std::vector<uint8_t>& output)
encodeRLEArray(deltas) ==
    IF Len(deltas) = 0 THEN encodeVarint(Zero64)
    ELSE encodeVarint(FromNat(Len(deltas))) \o encodeRuns(deltas, 1)

\* The vector holding f(1), ..., f(n).
RECURSIVE Vector(_, _)
Vector(f(_), n) == IF n <= 0 THEN <<>> ELSE Append(Vector(f, n - 1), f(n))

\* The four delta arrays of compress(), element i - 1 comparing samples[i]
\* with samples[i - 1] (0-indexed as in the source).
timeDeltas(samples) ==
    Vector(LAMBDA i : Sub64(samples[i + 1].timestamp, samples[i].timestamp),
           Len(samples) - 1)
addrDeltas(samples) ==
    Vector(LAMBDA i : FromInt(samples[i + 1].register_address
                              - samples[i].register_address),
           Len(samples) - 1)
rawDeltas(samples) ==
    Vector(LAMBDA i : FromInt(samples[i + 1].raw_value - samples[i].raw_value),
           Len(samples) - 1)
scaledDeltas(samples) ==
    Vector(LAMBDA i : FromInt(ScaledFixed(samples[i + 1].scaled_value)
                              - ScaledFixed(samples[i].scaled_value)),
           Len(samples) - 1)

\* compressed.push_back(1), length, bytes  /  compressed.push_back(0)
encodeStringChange(current, previous) ==
    IF current # previous THEN <<1>> \o encodeString(current) ELSE <<0>>

RECURSIVE encodeStringChanges(_, _)
encodeStringChanges(samples, i) ==
    IF i > Len(samples) THEN <<>>
    ELSE encodeStringChange(samples[i].register_name, samples[i - 1].register_name)
         \o encodeStringChange(samples[i].unit, samples[i - 1].unit)
         \o encodeStringChanges(samples, i + 1)

\* std::vector<uint8_t> DeltaCompression::compress(const std::vector<AcquisitionSample>& samples)
compress(samples) ==
    IF Len(samples) = 0 THEN <<>>
    ELSE LET first == samples[1]
         IN encodeVarint(FromNat(Len(samples)))
            \o encodeVarint(first.timestamp)
            \o encodeVarint(FromNat(first.register_address))
            \o encodeVarint(zigzagEncode(FromInt(first.raw_value)))
            \o encodeVarint(zigzagEncode(FromInt(ScaledFixed(first.scaled_value))))
            \o encodeString(first.register_name)
            \o encodeString(first.unit)
            \o encodeRLEArray(timeDeltas(samples))
            \o encodeRLEArray(addrDeltas(samples))
            \o encodeRLEArray(rawDeltas(samples))
            \o encodeRLEArray(scaledDeltas(samples))
            \o encodeStringChanges(samples, 2)

(***************************************************************************)
(*                    DeltaCompression::decompress                         *)
(* A read position is [offset, st]: st = "ok" while decoding proceeds,     *)
(* "thrown" once an exception left decompress, "ub" once the code read     *)
(* data[] or a delta vector out of bounds, or overflowed a signed add,     *)
(* "range" if a fixed-point value left the 31-bit range modelled here.     *)
(* Every read returns the position after it and the value read.            *)
(***************************************************************************)
StartPos == [offset |-> 0, st |-> "ok"]

\* The position and value after decodeVarint returned r.
varintRead(r) ==
    [pos |-> [offset |-> r.offset, st |-> IF r.thrown THEN "thrown" ELSE "ok"],
     value |-> r.value]

\* decodeVarint(data, offset) at the current position
readVarint(data, pos) ==
    IF pos.st # "ok" THEN [pos |-> pos, value |-> Zero64]
    ELSE varintRead(decodeVarint(data, pos.offset))

\* for (size_t i = 0; i < len; i++) str += static_cast<char>(data[offset++]);
\* data[offset] with offset >= data.size() is an out-of-bounds read.
readBytes(data, pos, len) ==
    IF pos.st # "ok" THEN [pos |-> pos, value |-> <<>>]
    ELSE IF ~FitsNat(len) \/ pos.offset + ToNat(len) > Len(data)
         THEN [pos |-> [offset |-> Len(data), st |-> "ub"], value |-> <<>>]
         ELSE [pos |-> [offset |-> pos.offset + ToNat(len), st |-> "ok"],
               value |-> SubSeq(data, pos.offset + 1, pos.offset + ToNat(len))]

\* the bytes that follow the length varint len
readStringBytes(data, len) == readBytes(data, len.pos, len.value)

\* length varint followed by the bytes
readString(data, pos) == readStringBytes(data, readVarint(data, pos))

\* data[offset++] of the name / unit flag
readFlag(data, pos) ==
    IF pos.st # "ok" THEN [pos |-> pos, value |-> 0]
    ELSE IF pos.offset >= Len(data)
         THEN [pos |-> [offset |-> pos.offset, st |-> "ub"], value |-> 0]
         ELSE [pos |-> [offset |-> pos.offset + 1, st |-> "ok"],
               value |-> data[pos.offset + 1]]

\* decodeDeltaRLE, RLE branch: count = decodeVarint(data, offset)
decodeDeltaRLECount(first_varint, count) ==
    [pos |-> count.pos,
     delta |-> zigzagDecode(And64(first_varint.value, RLEMask)),
     count |-> count.value]

\* decodeDeltaRLE after first_varint was read: if (first_varint & 0x8000000000000000ULL)
decodeDeltaRLEMarker(data, first_varint) ==
    IF And64(first_varint.value, RLEMarker) # Zero64
    THEN decodeDeltaRLECount(first_varint, readVarint(data, first_varint.pos))
    ELSE [pos |-> first_varint.pos, delta |-> zigzagDecode(first_varint.value),
          count |-> One64]

\* void DeltaCompression::decodeDeltaRLE(data, offset, delta, count)
\* count is returned as a 64-bit word.
decodeDeltaRLE(data, pos) == decodeDeltaRLEMarker(data, readVarint(data, pos))

\* for (size_t j = 0; j < count && deltas.size() < array_size; ++j) deltas.push_back(delta);
RECURSIVE pushBacks(_, _, _)
pushBacks(deltas, delta, n) ==
    IF n <= 0 THEN deltas ELSE pushBacks(Append(deltas, delta), delta, n - 1)

expandRun(deltas, delta, count, array_size) ==
    pushBacks(deltas, delta,
              IF FitsNat(count) THEN Min(ToNat(count), array_size - Len(deltas))
              ELSE array_size - Len(deltas))

\* while (deltas.size() < array_size) { decodeDeltaRLE(...); expand the run }
RECURSIVE decodeRuns(_, _, _, _)
RECURSIVE decodeRunsBody(_, _, _, _)
decodeRunsBody(data, run, deltas, array_size) ==
    IF run.pos.st # "ok" THEN [pos |-> run.pos, value |-> deltas]
    ELSE decodeRuns(data, run.pos,
                    expandRun(deltas, run.delta, run.count, array_size),
                    array_size)

decodeRuns(data, pos, deltas, array_size) ==
    IF pos.st # "ok" \/ Len(deltas) >= array_size
    THEN [pos |-> pos, value |-> deltas]
    ELSE decodeRunsBody(data, decodeDeltaRLE(data, pos), deltas, array_size)

\* decodeRLEArray after array_size was read.
\* deltas.reserve(array_size) with array_size >= 2^30 (8 GiB and more) is
\* taken to throw.
decodeRLEArraySized(data, array_size) ==
    IF array_size.pos.st # "ok" THEN [pos |-> array_size.pos, value |-> <<>>]
    ELSE IF ~FitsNat(array_size.value)
         THEN [pos |-> [offset |-> array_size.pos.offset, st |-> "thrown"],
               value |-> <<>>]
         ELSE decodeRuns(data, array_size.pos, <<>>, ToNat(array_size.value))

\* void DeltaCompression::decodeRLEArray(data, offset, deltas)
decodeRLEArray(data, pos) == decodeRLEArraySized(data, readVarint(data, pos))

\* a + b on int64_t overflows (undefined) when both operands have the same
\* sign and the sum has the other.
AddOverflows(a, b) ==
    /\ IsNegative(a) = IsNegative(b)
    /\ IsNegative(Add64(a, b)) # IsNegative(a)

\* The first sample from the six header fields as read.
firstSample(first_time, address, raw, scaled, name, unit) ==
    [pos |-> IF unit.pos.st = "ok" /\ ~FitsInt(zigzagDecode(scaled.value))
             THEN [offset |-> unit.pos.offset, st |-> "range"]
             ELSE unit.pos,
     value |-> [timestamp |-> first_time.value,
                register_address |-> CastAddress(address.value),
                raw_value |-> CastValue(zigzagDecode(raw.value)),
                scaled_value |-> Quot(ToInt(zigzagDecode(scaled.value))),
                register_name |-> name.value,
                unit |-> unit.value]]

\* The header fields are read one after the other, each from the position
\* the one before it left.
decodeFirstUnit(data, first_time, address, raw, scaled, name) ==
    firstSample(first_time, address, raw, scaled, name, readString(data, name.pos))

decodeFirstName(data, first_time, address, raw, scaled) ==
    decodeFirstUnit(data, first_time, address, raw, scaled,
                    readString(data, scaled.pos))

decodeFirstScaled(data, first_time, address, raw) ==
    decodeFirstName(data, first_time, address, raw, readVarint(data, raw.pos))

decodeFirstRaw(data, first_time, address) ==
    decodeFirstScaled(data, first_time, address, readVarint(data, address.pos))

decodeFirstAddress(data, first_time) ==
    decodeFirstRaw(data, first_time, readVarint(data, first_time.pos))

\* The first sample as read from the header.
decodeFirst(data, pos) == decodeFirstAddress(data, readVarint(data, pos))

\* if (data[offset++] == 1) { read the string } else keep the previous one
readStringChange(data, flag, previousString) ==
    IF flag.value = 1 THEN readString(data, flag.pos)
    ELSE [pos |-> flag.pos, value |-> previousString]

\* Sample i from the previous sample, the deltas and the strings read.
nextSample(previous, arrays, i, name, unit) ==
    [pos |-> unit.pos,
     value |-> [timestamp |-> Add64(previous.timestamp, arrays.time[i]),
                register_address |->
                    CastAddress(Add64(FromNat(previous.register_address),
                                      arrays.addr[i])),
                raw_value |->
                    CastValue(Add64(FromInt(previous.raw_value), arrays.raw[i])),
                scaled_value |-> Quot(ScaledFixed(previous.scaled_value)
                                      + ToInt(arrays.scaled[i])),
                register_name |-> name.value,
                unit |-> unit.value]]

decodeNextUnit(data, previous, arrays, i, name) ==
    nextSample(previous, arrays, i, name,
               readStringChange(data, readFlag(data, name.pos), previous.unit))

\* One iteration of "for (size_t i = 1; i < count; i++)": sample i from
\* sample i - 1 and the deltas at index i - 1 (1-indexed: position i).
decodeNext(data, pos, previous, arrays, i) ==
    IF \/ i > Len(arrays.time) \/ i > Len(arrays.addr)
       \/ i > Len(arrays.raw) \/ i > Len(arrays.scaled)
       \/ AddOverflows(previous.timestamp, arrays.time[i])
       \/ AddOverflows(FromNat(previous.register_address), arrays.addr[i])
       \/ AddOverflows(FromInt(previous.raw_value), arrays.raw[i])
    THEN [pos |-> [offset |-> pos.offset, st |-> "ub"], value |-> previous]
    ELSE IF ~FitsInt(arrays.scaled[i])
    THEN [pos |-> [offset |-> pos.offset, st |-> "range"], value |-> previous]
    ELSE decodeNextUnit(data, previous, arrays, i,
                        readStringChange(data, readFlag(data, pos),
                                         previous.register_name))

RECURSIVE decodeRest(_, _, _, _, _)
RECURSIVE decodeRestBody(_, _, _, _, _)
decodeRestBody(data, next, decoded, arrays, count) ==
    IF next.pos.st # "ok"
    THEN [st |-> next.pos.st, samples |-> decoded, offset |-> next.pos.offset]
    ELSE decodeRest(data, next.pos, Append(decoded, next.value), arrays, count)

decodeRest(data, pos, decoded, arrays, count) ==
    IF pos.st # "ok" \/ Len(decoded) >= count
    THEN [st |-> pos.st, samples |-> decoded, offset |-> pos.offset]
    ELSE decodeRestBody(data,
                        decodeNext(data, pos, decoded[Len(decoded)], arrays,
                                   Len(decoded)),
                        decoded, arrays, count)

\* The loop over the samples once the four delta arrays are decoded.
decodeSamples(data, count, first, time, addr, raw, scaled) ==
    IF scaled.pos.st # "ok"
    THEN [st |-> scaled.pos.st, samples |-> <<>>, offset |-> scaled.pos.offset]
    ELSE decodeRest(data, scaled.pos, <<first.value>>,
                    [time |-> time.value, addr |-> addr.value,
                     raw |-> raw.value, scaled |-> scaled.value],
                    ToNat(count.value))

\* decodeRLEArray(data, offset, time_deltas / addr_deltas / raw_deltas / scaled_deltas)
decodeScaledDeltas(data, count, first, time, addr, raw) ==
    decodeSamples(data, count, first, time, addr, raw, decodeRLEArray(data, raw.pos))

decodeRawDeltas(data, count, first, time, addr) ==
    decodeScaledDeltas(data, count, first, time, addr, decodeRLEArray(data, addr.pos))

decodeAddrDeltas(data, count, first, time) ==
    decodeRawDeltas(data, count, first, time, decodeRLEArray(data, time.pos))

decodeTimeDeltas(data, count, first) ==
    decodeAddrDeltas(data, count, first, decodeRLEArray(data, first.pos))

\* decompress after the number of samples was read.
decompressCounted(data, count) ==
    IF count.pos.st # "ok" \/ ~FitsNat(count.value)
    THEN [st |-> "thrown", samples |-> <<>>, offset |-> count.pos.offset]
    ELSE IF ToNat(count.value) = 0
    THEN [st |-> "ok", samples |-> <<>>, offset |-> count.pos.offset]
    ELSE decodeTimeDeltas(data, count, decodeFirst(data, count.pos))

\* std::vector<AcquisitionSample> DeltaCompression::decompress(const std::vector<uint8_t>& data)
\* The result is the status at the end of the call, the samples decoded and
\* the number of bytes consumed.
decompress(data) ==
    IF Len(data) = 0 THEN [st |-> "ok", samples |-> <<>>, offset |-> 0]
    ELSE decompressCounted(data, readVarint(data, StartPos))

(***************************************************************************)
(*                   compress / decompress as operations                   *)
(***************************************************************************)
\* Longest sample vector handed to compress().
MaxBatch == 3

\* 2^62 + 1000 ticks
FarFuture == Or64(Shl64(One64, 62), FromNat(1000))

Sample(t, a, r, sc, n, u) ==
    [timestamp |-> t, register_address |-> a, raw_value |-> r,
     scaled_value |-> sc, register_name |-> n, unit |-> u]

\* Samples explored.  Names and units are byte strings ("V" = <<86>>).
\* Scaled values are num/512: 129/512 = 0.251953125, 768/512 = 1.5,
\* -5/512 = -0.009765625.  Timestamps are int64 tick counts whose pairwise
\* differences do not overflow int64.
SampleUniverse ==
    { Sample(FromNat(1000), 0, 2303, Dyadic(129), <<86, 97>>, <<86>>),
      Sample(FromNat(2000), 255, 32767, Dyadic(768), <<73>>, <<>>),
      Sample(FarFuture, 9, 0 - 32768, Dyadic(0 - 5), <<80>>, <<87>>) }

Batches == UNION {[1..n -> SampleUniverse] : n \in 0..MaxBatch}

CodecInit ==
    /\ RingConstructed
    /\ RleIdle
    /\ WordIdle
    /\ FotaIdle
    /\ ConfigIdle
    /\ SchedulerIdle
    /\ txSamples \in Batches
    /\ wire = <<>>
    /\ rxData = <<>>
    /\ rxResult = <<>>
    /\ codecPc = "input"

\* auto compressed_data = compress(samples);
Compress ==
    /\ codecPc = "input"
    /\ wire' = compress(txSamples)
    /\ rxData' = wire'
    /\ codecPc' = "compressed"
    /\ UNCHANGED <<txSamples, rxResult>>
    /\ UNCHANGED codecOthers

\* The receiver gets only the first n bytes, 0 < n < size.
Truncate ==
    /\ codecPc = "compressed"
    /\ \E n \in 1..(Len(wire) - 1) : rxData' = SubSeq(wire, 1, n)
    /\ codecPc' = "truncated"
    /\ UNCHANGED <<txSamples, wire, rxResult>>
    /\ UNCHANGED codecOthers

\* What a call that ran into undefined behaviour can do: the process is
\* killed, or the call returns with whatever it had decoded.
UndefinedOutcomes(r) ==
    { [st |-> "crashed", samples |-> <<>>, offset |-> r.offset],
      [st |-> "returned", samples |-> r.samples, offset |-> r.offset] }

\* auto decompressed_samples = decompress(compressed_data);
Decompress ==
    /\ codecPc \in {"compressed", "truncated"}
    /\ \E r \in {decompress(rxData)} :
          IF r.st = "ub" THEN rxResult' \in UndefinedOutcomes(r)
          ELSE rxResult' = r
    /\ codecPc' = "decompressed"
    /\ UNCHANGED <<txSamples, wire, rxData>>
    /\ UNCHANGED codecOthers

CodecNext == Compress \/ Truncate \/ Decompress

SpecCodec == CodecInit /\ [][CodecNext]_vars

\* decompress() was applied to the complete output of compress().
RoundTripDone == codecPc = "decompressed" /\ rxData = wire

\* decompress() was applied to a non-empty proper prefix.
TruncatedDone == codecPc = "decompressed" /\ rxData # wire

\* Every fixed-point value stays inside the range this model computes in.
CodecInModelRange == codecPc = "decompressed" => rxResult.st # "range"

Abs(x) == IF x < 0 THEN 0 - x ELSE x

\* Sample i came back with the fields the codec carries without loss.
SameLosslessFields(original, decoded) ==
    /\ decoded.timestamp = original.timestamp
    /\ decoded.register_address = original.register_address
    /\ decoded.raw_value = original.raw_value
    /\ decoded.register_name = original.register_name
    /\ decoded.unit = original.unit

\* C3: for every sample vector xs, including the empty and the one-sample
\* vector, decompress(compress(xs)) has the length of xs and equals it
\* elementwise in register_address, raw_value, register_name, unit and in
\* the timestamp's clock ticks.
C3_CodecRoundTrip ==
    RoundTripDone =>
        /\ rxResult.st = "ok"
        /\ Len(rxResult.samples) = Len(txSamples)
        /\ \A i \in 1..Len(txSamples) :
              SameLosslessFields(txSamples[i], rxResult.samples[i])

\* C4: at every position of the batch the decompressed scaled_value is
\* within 10^-6 (8 units of 1/(8*10^6)) of the original, the encoder's
\* fixed-point value is scaled_value * 10^6 rounded to an integer, and the
\* decoder reconstructs exactly the encoder's fixed-point value.
C4_ScaledTolerance ==
    (RoundTripDone /\ rxResult.st = "ok" /\ Len(rxResult.samples) = Len(txSamples)) =>
        \A i \in 1..Len(txSamples) :
            LET original == txSamples[i].scaled_value
                decoded == rxResult.samples[i].scaled_value
            IN /\ Abs(InEighthMicros(original) - InEighthMicros(decoded)) <= 8
               /\ ScaledFixed(original) = ScaledFixedRounded(original)
               /\ decoded.num = ScaledFixed(original)

\* C5: for every non-empty proper prefix of a compress() output,
\* decompress signals a parse error (throws) instead of returning samples,
\* fabricating values or reading past the end of the input.
C5_TruncatedRejected ==
    TruncatedDone => rxResult.st = "thrown"

(***************************************************************************)
(*                               FOTAManager                               *)
(* A member function is an operator from the object (members and files)    *)
(* to the object after the call; "ok" is the function's return value.      *)
(***************************************************************************)
MAX_BOOT_ATTEMPTS == 3

\* Content of /version.txt, and the version the cloud offers.
CurrentVersion == "1.0.0"
NewVersion == "1.0.1"

\* Size in bytes of the firmware image held by the cloud.
ImageSize == 6

FirmwareImage == Vector(LAMBDA i : i, ImageSize)

\* sprintf("%02x", hash[i]): the digest in lower-case hex.
Sha256Hex(bytes) == [case |-> "lower", digest |-> bytes]
UpperHex(bytes) == [case |-> "upper", digest |-> bytes]

This ==
    [pc |-> fotaPc, manifest |-> manifest_, progress |-> progress_,
     chunks |-> chunks_downloaded_, stateFile |-> stateFile,
     firmwareFile |-> firmwareFile, bootCountFile |-> bootCountFile,
     ota |-> otaPartition, call |-> fotaCall]

Becomes(o) ==
    /\ fotaPc' = o.pc
    /\ manifest_' = o.manifest
    /\ progress_' = o.progress
    /\ chunks_downloaded_' = o.chunks
    /\ stateFile' = o.stateFile
    /\ firmwareFile' = o.firmwareFile
    /\ bootCountFile' = o.bootCountFile
    /\ otaPartition' = o.ota
    /\ fotaCall' = o.call
    /\ UNCHANGED <<security_, cloudManifest>>

\* The object at the start of a call.
StartCall(o, op) ==
    [o EXCEPT !.call = [NoCall EXCEPT !.op = op,
                                      !.chunksBefore = o.chunks,
                                      !.afterResume = o.call.resumed]]

\* void FOTAManager::setState(FOTAState state, const std::string& error)
setState(o, state, error) ==
    [o EXCEPT !.progress.state = state,
              !.progress.error_message = error,
              !.call.states = Append(@, state)]

\* bool isInProgress() const
isInProgress(o) == o.progress.state \notin {"IDLE", "FAILED"}

\* bool FOTAManager::saveState()
saveState(o) ==
    [o EXCEPT !.stateFile =
        [exists |-> TRUE,
         state |-> o.progress.state,
         version |-> o.manifest.version,
         chunks_received |-> o.progress.chunks_received,
         total_chunks |-> o.progress.total_chunks,
         verified |-> o.progress.verified,
         chunks |-> o.chunks]]

\* bool FOTAManager::loadState(): manifest_.version is the only member of
\* manifest_ it assigns.
loadState(o) ==
    IF ~o.stateFile.exists THEN o
    ELSE [o EXCEPT !.progress.state = o.stateFile.state,
                   !.manifest.version = o.stateFile.version,
                   !.progress.chunks_received = o.stateFile.chunks_received,
                   !.progress.total_chunks = o.stateFile.total_chunks,
                   !.progress.verified = o.stateFile.verified,
                   !.chunks = o.stateFile.chunks]

\* void FOTAManager::reset()
resetMembers(o) ==
    [o EXCEPT !.progress = DefaultProgress,
              !.manifest = DefaultManifest,
              !.chunks = <<>>]
reset(o) ==
    [o EXCEPT !.progress = DefaultProgress,
              !.manifest = DefaultManifest,
              !.chunks = <<>>,
              !.stateFile = NoStateFile]

\* int getBootCount() / void incrementBootCount() / void clearBootCount()
getBootCount(o) == IF o.bootCountFile.exists THEN o.bootCountFile.count ELSE 0
incrementBootCount(o) ==
    [o EXCEPT !.bootCountFile = [exists |-> TRUE, count |-> getBootCount(o) + 1]]
clearBootCount(o) == [o EXCEPT !.bootCountFile = NoBootCountFile]

\* bool FOTAManager::clearFirmwareFile()
clearFirmwareFile(o) == [o EXCEPT !.firmwareFile = NoFirmwareFile]

\* Partitions esp_partition_find_first / esp_ota_get_next_update_partition
\* can offer to rollback().
RollbackPartitions == {"factory", "previous_ota", "none"}

\* bool FOTAManager::rollback(const std::string& reason)
rollback(o, reason, partition) ==
    LET s == setState(o, "ROLLBACK", reason)
    IN IF partition = "none"
       THEN setState(s, "FAILED", "No rollback partition available")
       ELSE [reset([s EXCEPT !.ota.boot = partition]) EXCEPT !.pc = "boot"]

\* bool FOTAManager::begin(), on the freshly constructed object.
begin(o, partition) ==
    LET constructed == [o EXCEPT !.manifest = DefaultManifest,
                                 !.progress = DefaultProgress,
                                 !.chunks = <<>>,
                                 !.pc = "running"]
        withFiles ==
            [constructed EXCEPT
                !.bootCountFile = IF @.exists THEN @
                                  ELSE [exists |-> TRUE, count |-> 0],
                !.stateFile = IF @.exists THEN @
                              ELSE [NoStateFile EXCEPT !.exists = TRUE]]
        loaded == loadState(withFiles)
        counted ==
            IF ~isInProgress(loaded) THEN loaded
            ELSE IF getBootCount(loaded) >= MAX_BOOT_ATTEMPTS
                 THEN rollback(loaded, "Boot count exceeded after update", partition)
                 ELSE incrementBootCount(loaded)
        rolledBack == isInProgress(loaded) /\ getBootCount(loaded) >= MAX_BOOT_ATTEMPTS
    IN IF rolledBack THEN counted
       ELSE [counted EXCEPT
                !.progress.current_version = CurrentVersion,
                !.call.resumed = /\ counted.progress.state = "DOWNLOADING"
                                 /\ \E i \in 1..Len(counted.chunks) : ~counted.chunks[i]]

\* What the cloud may publish: nothing, or a manifest for the image it
\* holds - with the right size and lower-case hash in chunks of 1 byte or
\* of a third of the image, with an upper-case hash, with a size one byte short, with the
\* version the device already runs, with chunk_size 0, or with size 0.
\* The chunk size that cuts the image into three chunks.
ThirdOfImage == (ImageSize + 2) \div 3

CloudOffers ==
    { NoManifest,
      ManifestReply("manifest", NewVersion, ImageSize, Sha256Hex(FirmwareImage), 1),
      ManifestReply("manifest", NewVersion, ImageSize, Sha256Hex(FirmwareImage), ThirdOfImage),
      ManifestReply("manifest", NewVersion, ImageSize, UpperHex(FirmwareImage), ThirdOfImage),
      ManifestReply("manifest", NewVersion, ImageSize - 1, Sha256Hex(FirmwareImage), ThirdOfImage),
      ManifestReply("manifest", CurrentVersion, ImageSize, Sha256Hex(FirmwareImage), ThirdOfImage),
      ManifestReply("manifest", NewVersion, ImageSize, Sha256Hex(FirmwareImage), 0),
      ManifestReply("manifest", NewVersion, 0, Sha256Hex(FirmwareImage), ThirdOfImage) }

\* Replies to one manifest request: the request fails, or the body is what
\* the cloud publishes.
ManifestResponses == {ManifestReply("error", "", 0, NoHash, 0), cloudManifest}

\* bool FOTAManager::fetchManifest()
fetchManifest(o, resp) ==
    IF resp.kind = "error" THEN [ok |-> FALSE, o |-> o]
    ELSE IF resp.kind = "none"
    THEN [ok |-> TRUE, o |-> [o EXCEPT !.manifest.valid = FALSE]]
    ELSE [ok |-> TRUE,
          o |-> [o EXCEPT !.manifest =
                    [version |-> resp.version,
                     size |-> resp.size,
                     hash |-> resp.hash,
                     chunk_size |-> resp.chunk_size,
                     total_chunks |->
                        IF resp.size > 0 /\ resp.chunk_size > 0
                        THEN (resp.size + resp.chunk_size - 1) \div resp.chunk_size
                        ELSE 0,
                     valid |-> resp.version # "" /\ resp.size > 0 /\ resp.hash # NoHash]]]

\* bool FOTAManager::checkForUpdate()
checkForUpdate(o, resp) ==
    LET fetched == fetchManifest(setState(o, "CHECKING_MANIFEST", ""), resp)
        m == fetched.o
    IN IF ~fetched.ok THEN setState(m, "IDLE", "Failed to fetch manifest")
       ELSE IF ~m.manifest.valid THEN setState(m, "IDLE", "")
       ELSE IF m.manifest.version = m.progress.current_version
       THEN setState(m, "IDLE", "")
       ELSE setState([m EXCEPT !.progress.new_version = m.manifest.version,
                               !.progress.total_chunks = m.manifest.total_chunks,
                               !.progress.total_bytes = m.manifest.size],
                     "IDLE", "")

\* bool FOTAManager::startDownload()
startDownload(o) ==
    IF ~o.manifest.valid THEN o
    ELSE LET downloading == setState(o, "DOWNLOADING", "")
         IN saveState(clearFirmwareFile(
                [downloading EXCEPT
                    !.chunks = Vector(LAMBDA i : FALSE, o.manifest.total_chunks),
                    !.progress.chunks_received = 0,
                    !.progress.bytes_received = 0]))

\* Replies of GET /api/inverter/fota/chunk?chunk_number=N: a failed request
\* or unparsable body, or a chunk whose chunk_number is or is not N, whose
\* data is the image's slice, that slice with a bit flipped, or undecodable,
\* and whose mac does or does not equal the HMAC of the data.
ChunkResponses ==
    {[kind |-> "error", same_number |-> TRUE, data |-> "good", mac_valid |-> TRUE]}
    \cup {[kind |-> "ok", same_number |-> FALSE, data |-> "good", mac_valid |-> TRUE]}
    \cup {[kind |-> "ok", same_number |-> TRUE, data |-> d, mac_valid |-> v] :
            d \in {"good", "flipped", "undecodable"}, v \in BOOLEAN}

\* The reply parsed, but it is not the authentic chunk asked for.
Forged(resp) == resp.kind = "ok" /\ (~resp.same_number \/ ~resp.mac_valid)

\* Bytes chunk_number * chunk_size .. of the image, as the cloud slices it.
ImageSlice(chunk_number, chunk_size) ==
    SubSeq(FirmwareImage, chunk_number * chunk_size + 1,
           Min((chunk_number + 1) * chunk_size, ImageSize))

\* The decoded bytes of a reply; base64_decode returns 0 on failure.
DecodedData(resp, chunk_number, chunk_size) ==
    LET slice == ImageSlice(chunk_number, chunk_size)
    IN IF resp.data = "undecodable" \/ slice = <<>> THEN <<>>
       ELSE IF resp.data = "flipped" THEN <<slice[1] + 128>> \o Tail(slice)
       ELSE slice

\* bool FOTAManager::verifyChunkHMAC(data, size, mac_hex)
verifyChunkHMAC(resp) == IF ~security_ THEN TRUE ELSE resp.mac_valid

\* bool FOTAManager::saveFirmwareChunk(chunk_number, data, size): chunk 0
\* opens the file with "w", every other chunk with "a".
saveFirmwareChunk(o, chunk_number, decoded) ==
    [o EXCEPT !.firmwareFile =
        [exists |-> TRUE,
         bytes |-> IF chunk_number = 0 THEN decoded ELSE @.bytes \o decoded]]

\* if (chunks_received % 5 == 0 || chunks_received == total_chunks) saveState();
SaveDue(o) ==
    /\ o.progress.chunks_received > 0
    /\ o.manifest.total_chunks > 0
    /\ \/ o.progress.chunks_received % 5 = 0
       \/ o.progress.chunks_received = o.manifest.total_chunks

\* bool FOTAManager::fetchChunk(uint32_t chunk_number)
fetchChunk(o, chunk_number, resp) ==
    LET decoded == DecodedData(resp, chunk_number, o.manifest.chunk_size)
    IN IF \/ resp.kind # "ok"
          \/ ~resp.same_number
          \/ Len(decoded) = 0
          \/ ~verifyChunkHMAC(resp)
       THEN [ok |-> FALSE, o |-> o]
       ELSE LET saved == saveFirmwareChunk(o, chunk_number, decoded)
                marked == [saved EXCEPT
                             !.chunks[chunk_number + 1] = TRUE,
                             !.progress.chunks_received = @ + 1,
                             !.progress.bytes_received = @ + Len(decoded)]
            IN [ok |-> TRUE,
                o |-> IF SaveDue(marked) THEN saveState(marked) ELSE marked]

\* if (total_read != manifest_.size) / if (manifest_.hash != std::string(hash_hex))
SizeMatches(manifest, total_read) == total_read = manifest.size
HashMatchesAnyCase(manifest, hash_hex) == manifest.hash.digest = hash_hex.digest
HashMatches(manifest, hash_hex) == manifest.hash = hash_hex

\* bool FOTAManager::verifyFirmware()
verifyFirmware(o) ==
    LET verifying == [setState(o, "VERIFYING", "") EXCEPT !.call.verifyRan = TRUE]
        total_read == Len(o.firmwareFile.bytes)
        hash_hex == Sha256Hex(o.firmwareFile.bytes)
        sized == [verifying EXCEPT !.call.total_read = total_read]
        hashed == [sized EXCEPT !.call.hash_hex = hash_hex]
    IN IF ~o.firmwareFile.exists
       THEN [ok |-> FALSE,
             o |-> setState(verifying, "FAILED",
                            "Cannot open firmware file for verification")]
       ELSE IF ~SizeMatches(o.manifest, total_read)
       THEN [ok |-> FALSE, o |-> setState(sized, "FAILED", "Size mismatch")]
       ELSE IF ~HashMatches(o.manifest, hash_hex)
       THEN [ok |-> FALSE, o |-> setState(hashed, "FAILED", "Hash mismatch")]
       ELSE [ok |-> TRUE,
             o |-> setState([hashed EXCEPT !.progress.verified = TRUE], "WRITING", "")]

\* What Update.begin / Update.write / Update.end can do.
UpdateOutcomes == {"ok", "begin_failed", "write_failed", "end_failed"}

\* bool FOTAManager::applyUpdate(); ESP.restart() ends the run.
applyUpdate(o, outcome) ==
    LET called == [o EXCEPT !.call.applyRun = TRUE]
        writing == setState(called, "WRITING", "")
    IN IF ~o.progress.verified THEN called
       ELSE IF ~o.firmwareFile.exists
       THEN setState(writing, "FAILED", "Cannot open firmware file")
       ELSE IF outcome = "begin_failed"
       THEN setState(writing, "FAILED", "OTA begin failed")
       ELSE IF outcome = "write_failed"
       THEN setState(writing, "FAILED", "Write error")
       ELSE IF outcome = "end_failed"
       THEN setState([writing EXCEPT !.ota.image = o.firmwareFile.bytes],
                     "FAILED", "OTA end failed")
       ELSE LET written == [writing EXCEPT !.ota = [image |-> o.firmwareFile.bytes,
                                                    boot |-> "updated"]]
            IN [saveState(clearBootCount(setState(written, "REBOOTING", "")))
                  EXCEPT !.pc = "boot"]

\* for (i = 0; i < total_chunks; i++) if (!chunks_downloaded_[i]) { found }
MissingChunks(o) == {i \in 0..(o.manifest.total_chunks - 1) : ~o.chunks[i + 1]}
HighestMissing(o) == CHOOSE i \in MissingChunks(o) : \A j \in MissingChunks(o) : j <= i
LowestMissing(o) == CHOOSE i \in MissingChunks(o) : \A j \in MissingChunks(o) : i <= j

\* if (progress_.state != FOTAState::DOWNLOADING) return ...;
NotDownloadingNever(progress) == FALSE
NotDownloading(progress) == progress.state # "DOWNLOADING"

\* bool FOTAManager::processChunk()
processChunk(o, resp, outcome) ==
    IF NotDownloading(o.progress) THEN o
    ELSE IF o.manifest.total_chunks = 0 \/ Len(o.chunks) # o.manifest.total_chunks
    THEN setState(o, "FAILED", "Corrupted manifest state")
    ELSE IF MissingChunks(o) = {}
    THEN LET verification == verifyFirmware(setState(o, "VERIFYING", ""))
         IN IF ~verification.ok
            THEN setState(verification.o, "FAILED", "Firmware verification failed")
            ELSE applyUpdate(setState(verification.o, "WRITING", ""), outcome)
    ELSE LET chunk_number == LowestMissing(o)
             fetched == fetchChunk([o EXCEPT !.call.requested = chunk_number,
                                             !.call.forged = Forged(resp)],
                                   chunk_number, resp)
         IN IF ~fetched.ok
            THEN setState(fetched.o, "FAILED", "Failed to fetch chunk")
            ELSE fetched.o

\* What processChunk() returns: false from its first statement and from
\* every path that sets FAILED, true after a fetched chunk or an applied
\* update.
processChunkReturns(before, after) ==
    ~NotDownloading(before) /\ after.state # "FAILED"

\* void FOTAManager::loop(); due says whether CHUNK_INTERVAL has passed
\* since the last chunk.
loop(o, due, resp, outcome) ==
    IF NotDownloading(o.progress) THEN o
    ELSE IF ~due THEN o
    ELSE IF o.manifest.total_chunks = 0 \/ Len(o.chunks) # o.manifest.total_chunks
    THEN setState(o, "FAILED", "Invalid manifest state")
    ELSE processChunk(o, resp, outcome)

\* void FOTAManager::cancel()
cancel(o) == reset(clearFirmwareFile(setState(o, "IDLE", "Cancelled by user")))

(***************************************************************************)
(*                        FOTAManager as operations                        *)
(***************************************************************************)
\* The states visited so far, extended by the states a call set.
RECURSIVE Visit(_, _)
Visit(visited, states) ==
    IF states = <<>> THEN visited
    ELSE Visit(IF visited # <<>> /\ visited[Len(visited)] = Head(states)
               THEN visited
               ELSE Append(visited, Head(states)),
               Tail(states))

\* A manifest for a new version of the image the cloud holds, in three
\* chunks, and the authentic reply to a chunk request.
HappyManifest(resp) ==
    /\ resp.kind = "manifest"
    /\ resp.version = NewVersion
    /\ resp.size = ImageSize
    /\ resp.hash = Sha256Hex(FirmwareImage)
    /\ resp.chunk_size = ThirdOfImage
Authentic(resp) ==
    resp.kind = "ok" /\ resp.same_number /\ resp.mac_valid /\ resp.data = "good"

\* The call that made o applied an update, or was the next boot after one.
Applies(o) ==
    [o EXCEPT !.call.applied = o.pc = "boot" /\ o.progress.state = "REBOOTING"]
Boots(o, last) ==
    IF last.applied /\ last.boots <= MAX_BOOT_ATTEMPTS
    THEN [o EXCEPT !.call.applied = TRUE, !.call.boots = last.boots + 1]
    ELSE o

\* The path before checkForUpdate is called in IDLE.
StartPath == [step |-> 0, states |-> <<"IDLE">>, requests |-> <<>>]

\* The call that made o continued the path from, or left it.
Along(o, from, continues) ==
    [o EXCEPT !.call.path =
        IF ~continues THEN NoPath
        ELSE [step |-> from.step + 1,
              states |-> Visit(from.states, o.call.states),
              requests |-> IF o.call.requested = NoChunk THEN from.requests
                           ELSE Append(from.requests, o.call.requested)]]

FotaInit ==
    /\ RingConstructed
    /\ RleIdle
    /\ WordIdle
    /\ CodecIdle
    /\ ConfigIdle
    /\ SchedulerIdle
    /\ FotaConstructed
    /\ security_ \in BOOLEAN
    /\ cloudManifest \in CloudOffers

Begin ==
    /\ fotaPc = "boot"
    /\ \E partition \in RollbackPartitions :
          Becomes(Boots(begin(StartCall(This, "begin"), partition), fotaCall))
    /\ UNCHANGED fotaOthers

CheckForUpdate ==
    /\ fotaPc = "running"
    /\ \E resp \in ManifestResponses :
          Becomes(Along(checkForUpdate(StartCall(This, "checkForUpdate"), resp),
                        StartPath,
                        progress_.state = "IDLE" /\ HappyManifest(resp)))
    /\ UNCHANGED fotaOthers

StartDownload ==
    /\ fotaPc = "running"
    /\ Becomes(Along(startDownload(StartCall(This, "startDownload")),
                     fotaCall.path, fotaCall.path.step = 1))
    /\ UNCHANGED fotaOthers

\* The call fetches a chunk: the reply matters, Update is not reached.
FetchesChunk(o) ==
    /\ o.progress.state = "DOWNLOADING"
    /\ o.manifest.total_chunks # 0
    /\ Len(o.chunks) = o.manifest.total_chunks
    /\ MissingChunks(o) # {}

ProcessChunk ==
    /\ fotaPc = "running"
    /\ \/ /\ FetchesChunk(This)
          /\ \E resp \in ChunkResponses :
                Becomes(Along(processChunk(StartCall(This, "processChunk"), resp, "ok"),
                              fotaCall.path,
                              fotaCall.path.step \in 2..5 /\ Authentic(resp)))
       \/ /\ ~FetchesChunk(This)
          /\ \E resp \in {r \in ChunkResponses : r.kind = "error"},
                outcome \in UpdateOutcomes :
                Becomes(Along(Applies(processChunk(StartCall(This, "processChunk"),
                                                   resp, outcome)),
                              fotaCall.path,
                              fotaCall.path.step \in 2..5 /\ outcome = "ok"))
    /\ UNCHANGED fotaOthers

\* loop() of the main task: nothing unless DOWNLOADING and due, else one
\* processChunk().
Loop ==
    /\ fotaPc = "running"
    /\ \/ /\ FetchesChunk(This)
          /\ \E resp \in ChunkResponses, due \in BOOLEAN :
                Becomes(Along(loop(StartCall(This, "loop"), due, resp, "ok"),
                              fotaCall.path,
                              due /\ fotaCall.path.step \in 2..5 /\ Authentic(resp)))
       \/ /\ ~FetchesChunk(This)
          /\ \E resp \in {r \in ChunkResponses : r.kind = "error"},
                outcome \in UpdateOutcomes, due \in BOOLEAN :
                Becomes(Along(Applies(loop(StartCall(This, "loop"), due,
                                           resp, outcome)),
                              fotaCall.path,
                              due /\ fotaCall.path.step \in 2..5 /\ outcome = "ok"))
    /\ UNCHANGED fotaOthers

Cancel ==
    /\ fotaPc = "running"
    /\ Becomes(cancel(StartCall(This, "cancel")))
    /\ UNCHANGED fotaOthers

\* Power is lost and restored: the members are gone, the files stay.
PowerCycle ==
    /\ fotaPc = "running"
    /\ Becomes([StartCall(This, "power_cycle") EXCEPT
                    !.call.applied = fotaCall.applied,
                    !.call.boots = fotaCall.boots,
                    !.pc = "boot",
                    !.manifest = DefaultManifest,
                    !.progress = DefaultProgress,
                    !.chunks = <<>>])
    /\ UNCHANGED fotaOthers

FotaNext ==
    \/ Begin
    \/ CheckForUpdate
    \/ StartDownload
    \/ ProcessChunk
    \/ Cancel
    \/ PowerCycle

SpecFota == FotaInit /\ [][FotaNext]_vars

\* The manager driven by the main task, which calls loop() again and
\* again, and by a caller of the public operations; the device keeps its
\* power.
FotaLoopNext ==
    \/ Begin
    \/ CheckForUpdate
    \/ StartDownload
    \/ ProcessChunk
    \/ Loop
    \/ Cancel

SpecFotaLoop == FotaInit /\ [][FotaLoopNext]_vars

\* The last call handed the given state to setState().
Visited(state) == \E i \in 1..Len(fotaCall.states) : fotaCall.states[i] = state

\* The last call is the first processChunk() after a begin() that restored
\* a Downloading state with fewer chunks marked than the bitmap holds.
ResumedChunkCall == fotaCall.op = "processChunk" /\ fotaCall.afterResume

\* C9: after a restart in which begin()/loadState restored a persisted
\* Downloading state with k < total_chunks chunks marked received, the next
\* processChunk() requests the lowest chunk index the restored bitmap marks
\* as not received, and does not fail the download.
C9_FotaResume ==
    ResumedChunkCall =>
        /\ fotaCall.requested # NoChunk
        /\ fotaCall.requested + 1 \in 1..Len(fotaCall.chunksBefore)
        /\ ~fotaCall.chunksBefore[fotaCall.requested + 1]
        /\ \A j \in 1..fotaCall.requested : fotaCall.chunksBefore[j]
        /\ progress_.error_message # "Corrupted manifest state"

\* The scratch image has manifest.size bytes and its lower-case hex digest
\* is manifest.hash.
ImageMatchesManifest ==
    /\ firmwareFile.exists
    /\ Len(firmwareFile.bytes) = manifest_.size
    /\ Sha256Hex(firmwareFile.bytes) = manifest_.hash

\* Every one of total_chunks chunks is marked received.
AllChunksReceived ==
    /\ manifest_.total_chunks > 0
    /\ Len(chunks_downloaded_) = manifest_.total_chunks
    /\ \A i \in 1..manifest_.total_chunks : chunks_downloaded_[i]

\* C10: a processChunk() call reaches WRITING, runs applyUpdate or writes
\* the OTA partition only if all total_chunks chunks were received and
\* verifyFirmware found the scratch image's byte count equal to
\* manifest.size and its lower-case hex SHA-256 equal to manifest.hash; when
\* verifyFirmware finds a size or hash mismatch the state is FAILED and
\* applyUpdate is not run.
C10_VerificationGate ==
    fotaCall.op = "processChunk" =>
        /\ (Visited("WRITING") \/ fotaCall.applyRun) =>
              /\ AllChunksReceived
              /\ fotaCall.verifyRan
              /\ fotaCall.total_read = manifest_.size
              /\ fotaCall.hash_hex = manifest_.hash
              /\ ImageMatchesManifest
        /\ (fotaCall.verifyRan /\ ~ImageMatchesManifest) =>
              /\ progress_.state = "FAILED"
              /\ ~Visited("WRITING")
              /\ ~fotaCall.applyRun
        /\ otaPartition.image # <<>> => otaPartition.image = FirmwareImage

\* All chunks of the image were fetched, verification passed, the image was
\* written to the OTA partition and the device is about to reboot.
C10_Witness ==
    /\ fotaCall.op = "processChunk"
    /\ fotaCall.verifyRan
    /\ Visited("WRITING")
    /\ fotaCall.applyRun
    /\ progress_.state = "REBOOTING"
    /\ otaPartition = [image |-> FirmwareImage, boot |-> "updated"]

\* C11: a fetched chunk whose mac is not the HMAC-SHA256 of its decoded
\* bytes, or whose chunk_number is not the requested index, is not appended
\* to the scratch image and not marked received; the call ends in FAILED and
\* verifyFirmware is not run - whether or not the manager has a security
\* layer.
C11_ChunkAuthentication ==
    [][(fotaCall'.op = "processChunk" /\ fotaCall'.forged) =>
          /\ firmwareFile' = firmwareFile
          /\ chunks_downloaded_' = chunks_downloaded_
          /\ progress_'.state = "FAILED"
          /\ ~fotaCall'.verifyRan]_vars

\* C12: for a valid manifest of a new version with three chunks, authentic
\* chunk replies and an Update that succeeds, checkForUpdate, startDownload
\* and processChunk (called until the reboot) take the state through IDLE,
\* CHECKING_MANIFEST, IDLE, DOWNLOADING, VERIFYING, WRITING, REBOOTING and
\* no other state, request the chunks 0, 1, 2 in this order, and reach the
\* reboot on the sixth call with the boot counter cleared.
HappyStates ==
    <<"IDLE", "CHECKING_MANIFEST", "IDLE", "DOWNLOADING",
      "VERIFYING", "WRITING", "REBOOTING">>
HappyVisited == <<0, 3, 4, 4, 4, 4, 7>>
HappyRequested == <<0, 0, 0, 1, 2, 3, 3>>
C12_HappyPath ==
    /\ fotaCall.path.step <= 6
    /\ fotaCall.path.states =
          SubSeq(HappyStates, 1, HappyVisited[fotaCall.path.step + 1])
    /\ fotaCall.path.requests =
          SubSeq(<<0, 1, 2>>, 1, HappyRequested[fotaCall.path.step + 1])
    /\ fotaCall.path.step \in 1..5 => fotaPc = "running"
    /\ fotaCall.path.step = 6 =>
          /\ fotaPc = "boot"
          /\ progress_.state = "REBOOTING"
          /\ ~bootCountFile.exists

\* The sixth call of the sequence has rebooted into the new image.
C12_Witness ==
    /\ fotaCall.path.step = 6
    /\ fotaCall.op = "processChunk"
    /\ otaPartition.boot = "updated"

\* C13: begin() on a persisted state that is in progress: with boot_count
\* >= MAX_BOOT_ATTEMPTS it enters ROLLBACK, makes the factory partition or
\* the other OTA partition the boot partition, resets the FOTA state and
\* reboots; with a smaller boot_count it adds exactly one to the persisted
\* counter. So each of the three boots after an applied update adds one to
\* the counter, and the begin() after them rolls back.
PersistedInProgress ==
    stateFile.exists /\ isInProgress([progress |-> [state |-> stateFile.state]])
RolledBack ==
    /\ \E i \in 1..Len(fotaCall'.states) : fotaCall'.states[i] = "ROLLBACK"
    /\ otaPartition'.boot \in {"factory", "previous_ota"}
    /\ ~stateFile'.exists
    /\ progress_' = DefaultProgress
    /\ fotaPc' = "boot"
C13_RollbackTrigger ==
    [][fotaCall'.op = "begin" =>
          /\ PersistedInProgress /\ getBootCount(This) >= MAX_BOOT_ATTEMPTS
                => RolledBack
          /\ PersistedInProgress /\ getBootCount(This) < MAX_BOOT_ATTEMPTS
                => /\ bootCountFile' =
                         [exists |-> TRUE, count |-> getBootCount(This) + 1]
                   /\ otaPartition' = otaPartition
                   /\ fotaPc' = "running"
          /\ fotaCall'.applied /\ fotaCall'.boots <= MAX_BOOT_ATTEMPTS
                => /\ bootCountFile'.count = fotaCall'.boots
                   /\ fotaPc' = "running"
          /\ fotaCall'.applied /\ fotaCall'.boots > MAX_BOOT_ATTEMPTS
                => RolledBack]_vars

(***************************************************************************)
(*            RemoteConfigHandler, ConfigManager, EcoWattDevice            *)
(***************************************************************************)
\* uint32_t interval_seconds * 1000: the low 32 bits of the product, which
\* are 8 * (125 * interval_seconds mod 2^29).
TwoTo29 == 536870912
TimesThousand(interval_seconds) == 8 * ((interval_seconds * 125) % TwoTo29)

\* Elements of config_update.registers: reg.is<int>() or reg.is<const char*>().
IntEntry(n) == [is |-> "int", number |-> n, name |-> ""]
NameEntry(name) == [is |-> "name", number |-> 0, name |-> name]

\* if (name == "voltage") request.registers.push_back(0); else if ...
RegisterNames ==
    [voltage |-> 0, current |-> 1, frequency |-> 2, pv1_voltage |-> 3,
     pv2_voltage |-> 4, pv1_current |-> 5, pv2_current |-> 6,
     temperature |-> 7, export_power |-> 8, output_power |-> 9]

\* for (JsonVariant reg : registers) { ... push_back ... }
RECURSIVE parseRegisters(_)
parseRegisters(entries) ==
    IF entries = <<>> THEN <<>>
    ELSE (IF Head(entries).is = "int" THEN <<Head(entries).number>>
          ELSE IF Head(entries).name \in DOMAIN RegisterNames
          THEN <<RegisterNames[Head(entries).name]>>
          ELSE <<>>) \o parseRegisters(Tail(entries))

\* if (!request.registers.empty()) request.has_registers = true;
HasRegistersAlways(reply, registers) == reply.has_registers
HasRegisters(reply, registers) == reply.has_registers /\ registers # <<>>

\* The request filled in from a body with a config_update object.
materialize(reply, now, registers) ==
    [ok |-> reply.has_interval \/ HasRegisters(reply, registers),
     request |->
        [nonce |-> IF reply.has_nonce THEN reply.nonce ELSE now,
         timestamp |-> now,
         has_sampling_interval |-> reply.has_interval,
         sampling_interval_ms |->
            IF reply.has_interval THEN TimesThousand(reply.seconds) ELSE 0,
         has_registers |-> HasRegisters(reply, registers),
         registers |-> registers]]

\* bool RemoteConfigHandler::parseConfigUpdateRequest(json, request)
parseConfigUpdateRequest(reply, now) ==
    IF reply.kind # "update" THEN [ok |-> FALSE, request |-> NoRequest]
    ELSE materialize(reply, now,
                     IF reply.has_registers THEN parseRegisters(reply.registers)
                     ELSE <<>>)

\* ConfigManager::applyConfigUpdate(request): every proposed field is
\* compared with the configuration and listed as unchanged, accepted
\* (and applied) or rejected.
MinSamplingInterval == 1000
MaxSamplingInterval == 3600000
KnownAddresses == {RegisterNames[name] : name \in DOMAIN RegisterNames}
Elements(registers) == {registers[i] : i \in 1..Len(registers)}

IntervalVerdict(config, request) ==
    IF ~request.has_sampling_interval THEN "absent"
    ELSE IF request.sampling_interval_ms = config.polling_interval_ms
    THEN "unchanged"
    ELSE IF request.sampling_interval_ms \in MinSamplingInterval..MaxSamplingInterval
    THEN "accepted"
    ELSE "rejected"

RegistersVerdict(config, request) ==
    IF ~request.has_registers THEN "absent"
    ELSE IF request.registers = <<>> THEN "rejected"
    ELSE IF Elements(request.registers) \subseteq Elements(config.minimum_registers)
    THEN "unchanged"
    ELSE IF Elements(request.registers) \subseteq KnownAddresses
    THEN "accepted"
    ELSE "rejected"

AckEntry(parameter, old_value, new_value, reason) ==
    [parameter |-> parameter, old_value |-> old_value,
     new_value |-> new_value, reason |-> reason]

\* The entries of one list of the ack.
Listed(list, config, request, interval, registers) ==
    (IF interval = list
     THEN <<AckEntry("sampling_interval", <<config.polling_interval_ms>>,
                     <<request.sampling_interval_ms>>, list)>>
     ELSE <<>>)
    \o (IF registers = list
        THEN <<AckEntry("registers", config.minimum_registers,
                        request.registers, list)>>
        ELSE <<>>)

applyVerdicts(config, request, interval, registers) ==
    [config |->
        [config EXCEPT
            !.polling_interval_ms =
                IF interval = "accepted" THEN request.sampling_interval_ms ELSE @,
            !.minimum_registers =
                IF registers = "accepted" THEN request.registers ELSE @],
     ack |->
        [nonce |-> request.nonce,
         timestamp |-> request.timestamp,
         all_success |-> interval # "rejected" /\ registers # "rejected",
         accepted |-> Listed("accepted", config, request, interval, registers),
         rejected |-> Listed("rejected", config, request, interval, registers),
         unchanged |-> Listed("unchanged", config, request, interval, registers)]]

applyConfigUpdate(config, request) ==
    applyVerdicts(config, request, IntervalVerdict(config, request),
                  RegistersVerdict(config, request))

\* std::string RemoteConfigHandler::generateAckJson(ack): the entries of
\* unchanged carry parameter and reason only.
generateAckJson(ack) ==
    [nonce |-> ack.nonce, timestamp |-> ack.timestamp,
     all_success |-> ack.all_success,
     config_ack |->
        [accepted |-> ack.accepted,
         rejected |-> ack.rejected,
         unchanged |-> [i \in 1..Len(ack.unchanged) |->
                          [parameter |-> ack.unchanged[i].parameter,
                           reason |-> ack.unchanged[i].reason]]]]

\* if (!ack.accepted.empty() && onUpdateCallback_) onUpdateCallback_();
CallbackDueAlways(ack, callback) == callback
CallbackDue(ack, callback) == ack.accepted # <<>> /\ callback

\* The outcome of a cycle that stops before the ack.
Returned(reply, events) ==
    [config |-> acquisition_config_,
     handed |-> schedulerConfig,
     cycle |-> [NoCycle EXCEPT !.op = "checkForConfigUpdate",
                               !.reply = reply,
                               !.events = events,
                               !.registered = onUpdateCallback_]]

\* sendConfigAck(ack), then the callback: EcoWattDevice::onConfigUpdated()
\* hands the scheduler what getAcquisitionConfig() returns.
acknowledge(reply, request, applied, post_ok) ==
    [config |-> applied.config,
     handed |-> IF CallbackDue(applied.ack, onUpdateCallback_)
                THEN updateConfig(applied.config)
                ELSE schedulerConfig,
     cycle |->
        [op |-> "checkForConfigUpdate", reply |-> reply, parsed |-> TRUE,
         request |-> request, ack |-> applied.ack,
         posts |-> <<[body |-> generateAckJson(applied.ack), ok |-> post_ok]>>,
         events |-> <<"get", "post">> \o
                    (IF CallbackDue(applied.ack, onUpdateCallback_)
                     THEN <<"callback">> ELSE <<>>),
         registered |-> onUpdateCallback_]]

applyParsed(reply, parsed, post_ok) ==
    IF ~parsed.ok THEN Returned(reply, <<"get">>)
    ELSE acknowledge(reply, parsed.request,
                     applyConfigUpdate(acquisition_config_, parsed.request),
                     post_ok)

\* void RemoteConfigHandler::checkForConfigUpdate()
checkForConfigUpdate(reply, now, post_ok) ==
    IF ~http_ THEN Returned(NoReply, <<>>)
    ELSE IF reply.kind = "error" THEN Returned(reply, <<"get">>)
    ELSE applyParsed(reply, parseConfigUpdateRequest(reply, now), post_ok)

\* What the cloud may answer: arrays of up to MaxRegisters of an unknown
\* address, a known name and an unknown name.
MaxRegisters == 2
RegisterEntries == <<IntEntry(10), NameEntry("current"), NameEntry("bogus")>>
RECURSIVE Picked(_, _)
Picked(chosen, i) ==
    IF i > Len(RegisterEntries) THEN <<>>
    ELSE (IF i \in chosen THEN <<RegisterEntries[i]>> ELSE <<>>)
         \o Picked(chosen, i + 1)
RegisterLists ==
    {Picked(chosen, 1) :
        chosen \in {c \in SUBSET (1..Len(RegisterEntries)) :
                        Cardinality(c) <= MaxRegisters}}
Seconds == {5, 10, 3601, 4294969}
Nonce == 7
PullReplies ==
    {PullReply(kind, FALSE, 0, FALSE, 0, FALSE, <<>>) :
        kind \in {"error", "unparsable", "no_update"}}
    \cup {PullReply("update", has_nonce, IF has_nonce THEN Nonce ELSE 0,
                    FALSE, 0, has_registers, registers) :
            has_nonce \in BOOLEAN, has_registers \in {TRUE},
            registers \in RegisterLists}
    \cup {PullReply("update", has_nonce, IF has_nonce THEN Nonce ELSE 0,
                    TRUE, seconds, FALSE, <<>>) :
            has_nonce \in BOOLEAN, seconds \in Seconds}
    \cup {PullReply("update", has_nonce, IF has_nonce THEN Nonce ELSE 0,
                    TRUE, seconds, TRUE, registers) :
            has_nonce \in BOOLEAN, seconds \in Seconds,
            registers \in RegisterLists}
    \cup {PullReply("update", has_nonce, IF has_nonce THEN Nonce ELSE 0,
                    FALSE, 0, FALSE, <<>>) : has_nonce \in BOOLEAN}

\* millis() when a cycle runs: the ticker fires after pollInterval_.
Clock == {DefaultPollInterval}

(***************************************************************************)
(*                    RemoteConfigHandler as operations                    *)
(***************************************************************************)
ConfigInit ==
    /\ RingConstructed
    /\ RleIdle
    /\ WordIdle
    /\ CodecIdle
    /\ FotaIdle
    /\ SchedulerIdle
    /\ ConfigConstructed
    /\ http_ \in BOOLEAN

\* void RemoteConfigHandler::begin(uint32_t interval_ms)
HandlerBegin ==
    /\ \E interval_ms \in {DefaultPollInterval} :
          pollInterval_' = interval_ms
    /\ running_' = TRUE
    /\ UNCHANGED <<http_, onUpdateCallback_, acquisition_config_,
                   schedulerConfig, pullCycle>>
    /\ UNCHANGED configOthers

\* void RemoteConfigHandler::end()
HandlerEnd ==
    /\ running_' = FALSE
    /\ UNCHANGED <<pollInterval_, http_, onUpdateCallback_,
                   acquisition_config_, schedulerConfig, pullCycle>>
    /\ UNCHANGED configOthers

\* void RemoteConfigHandler::onConfigUpdate(callback)
OnConfigUpdate ==
    /\ onUpdateCallback_' = TRUE
    /\ UNCHANGED <<running_, pollInterval_, http_, acquisition_config_,
                   schedulerConfig, pullCycle>>
    /\ UNCHANGED configOthers

\* loop() -> pollTicker_.update() -> pollTask() -> checkForConfigUpdate()
PollTask ==
    /\ running_
    /\ \E reply \in PullReplies, now \in Clock, post_ok \in BOOLEAN :
          \E done \in {checkForConfigUpdate(reply, now, post_ok)} :
              /\ acquisition_config_' = done.config
              /\ schedulerConfig' = done.handed
              /\ pullCycle' = done.cycle
    /\ UNCHANGED <<running_, pollInterval_, http_, onUpdateCallback_>>
    /\ UNCHANGED configOthers

ConfigNext ==
    \/ HandlerBegin
    \/ HandlerEnd
    \/ OnConfigUpdate
    \/ PollTask

SpecConfig == ConfigInit /\ [][ConfigNext]_vars

\* The entries of the POSTed ack that name the parameter, over its three
\* lists.
AckEntries(body, parameter) ==
    Cardinality({i \in 1..Len(body.accepted) : body.accepted[i].parameter = parameter})
    + Cardinality({i \in 1..Len(body.rejected) : body.rejected[i].parameter = parameter})
    + Cardinality({i \in 1..Len(body.unchanged) : body.unchanged[i].parameter = parameter})
Present(flag) == IF flag THEN 1 ELSE 0

\* C14: the ack POSTed for a pulled update lists as many parameters in
\* accepted, rejected and unchanged together as the update has fields
\* (sampling_interval, registers), each field of the update in exactly one
\* list.
C14_AckCompleteness ==
    pullCycle.reply.kind = "update" /\ pullCycle.posts # <<>> =>
        /\ Len(pullCycle.posts[1].body.config_ack.accepted)
           + Len(pullCycle.posts[1].body.config_ack.rejected)
           + Len(pullCycle.posts[1].body.config_ack.unchanged)
           = Present(pullCycle.reply.has_interval)
             + Present(pullCycle.reply.has_registers)
        /\ AckEntries(pullCycle.posts[1].body.config_ack, "sampling_interval")
           = Present(pullCycle.reply.has_interval)
        /\ AckEntries(pullCycle.posts[1].body.config_ack, "registers")
           = Present(pullCycle.reply.has_registers)

\* C15: a pulled update whose registers array is empty once the unknown
\* names are dropped is answered by an ack that lists registers as rejected
\* and has all_success false, with or without a sampling_interval.
C15_EmptyRegistersRejected ==
    /\ pullCycle.reply.kind = "update"
    /\ pullCycle.reply.has_registers
    /\ parseRegisters(pullCycle.reply.registers) = <<>>
    => /\ Len(pullCycle.posts) = 1
       /\ \E i \in 1..Len(pullCycle.posts[1].body.config_ack.rejected) :
             pullCycle.posts[1].body.config_ack.rejected[i].parameter = "registers"
       /\ ~pullCycle.posts[1].body.all_success

\* C16: in a pull cycle the update callback runs at most once; a registered
\* callback runs exactly when the ack of the cycle has an accepted
\* parameter, after the ack was POSTed, and the scheduler then holds the
\* polling interval and registers of the configuration; no callback runs in
\* a cycle without an accepted parameter.
Invocations(events) ==
    Cardinality({i \in 1..Len(events) : events[i] = "callback"})
C16_UpdateCallback ==
    pullCycle.op = "checkForConfigUpdate" =>
        /\ Invocations(pullCycle.events) <= 1
        /\ pullCycle.registered =>
              (Invocations(pullCycle.events) = 1 <=> pullCycle.ack.accepted # <<>>)
        /\ pullCycle.ack.accepted = <<>> => Invocations(pullCycle.events) = 0
        /\ Invocations(pullCycle.events) = 1 =>
              /\ pullCycle.events = <<"get", "post", "callback">>
              /\ Len(pullCycle.posts) = 1
              /\ schedulerConfig = updateConfig(acquisition_config_)

\* A cycle accepted a sampling interval other than the default and the
\* callback ran although the POST of the ack failed.
C16_Witness ==
    /\ pullCycle.op = "checkForConfigUpdate"
    /\ Invocations(pullCycle.events) = 1
    /\ ~pullCycle.posts[1].ok
    /\ schedulerConfig.interval_ms # DefaultPollingInterval

(***************************************************************************)
(*                          AcquisitionScheduler                           *)
(***************************************************************************)
\* Register addresses, what protocol_adapter_->readRegisters(address, 1)
\* can do (return a value, return nothing, throw a std::exception), and
\* what a callback can do (return, throw a std::exception, throw something
\* that is not a std::exception).
Addresses == {0, 1}
ReadOutcomes == {"value", "empty", "throws"}
CallbackBehaviours == {"returns", "throws", "throws_other"}
ErrorCallbackBehaviours == {"returns", "throws"}
MaxCallbacks == 2
MaxCycles == 2
NoAddress == -1

\* A pollingLoop() thread that has not yet tested stop_requested_.
\*   pc         "check" | "collect" | "read" | "store" | "statistics" |
\*              "drain" | "sleep" | "exited" | "terminated"
\*   addresses  addresses_to_read of the cycle
\*   next       index in addresses of the next address to read
\*   samples    the addresses whose samples were acquired, in order
\*   stored     how many of the samples storeSample() has handled
\*   configured register_configs_ and minimum_registers_ as they were when
\*              the cycle started
NoConfiguration == [registers |-> <<>>, minimum |-> <<>>]
NewLoop ==
    [pc |-> "check", addresses |-> <<>>, next |-> 1, samples |-> <<>>,
     stored |-> 0, configured |-> NoConfiguration]

\* An entry of the log of a cycle.
\*   "cycle"           the cycle starts; n error callbacks are registered
\*   "read"            readSingleRegister(address) with its outcome; n is
\*                     the gain its sample was scaled with
\*   "push"            circular_buffer_.push(sample); n sample callbacks
\*                     are registered
\*   "sample_callback" sample callback n is called with the sample
\*   "error_callback"  error callback n is called
\*   "statistics"      the statistics are updated
Event(event, address, n, outcome) ==
    [event |-> event, address |-> address, n |-> n, outcome |-> outcome]

\* An exception that no handler catches ends the process (std::terminate).
Terminated == \E t \in 1..Len(pollLoops) : pollLoops[t].pc = "terminated"

\* The last call of the controlling thread: its name, and whether the
\* scheduler was already in the state the call asks for.
Called(op, redundant) == [op |-> op, redundant |-> redundant]

\* if (polling_active_.load()) return;
NeverPolling(active) == FALSE
AlreadyPolling(active) == active

\* for (const auto& pair : register_configs_) addresses_to_read.push_back(pair.first);
RECURSIVE Ascending(_)
Ascending(keys) ==
    IF keys = {} THEN <<>>
    ELSE <<CHOOSE k \in keys : \A other \in keys : k <= other>>
         \o Ascending(keys \ {CHOOSE k \in keys : \A other \in keys : k <= other})

\* for (auto addr : minimum_registers_) if (std::find(...) == end) push_back(addr);
RECURSIVE addMissing(_, _)
addMissing(addresses, registers) ==
    IF registers = <<>> THEN addresses
    ELSE addMissing(IF Head(registers) \in Elements(addresses) THEN addresses
                    ELSE Append(addresses, Head(registers)),
                    Tail(registers))

addressesToRead ==
    addMissing(Ascending(DOMAIN register_configs_), minimum_registers_)

\* for (const auto& callback : callbacks) try { callback(...); }
\* catch (const std::exception& e) { LOG_ERROR }: the log after the calls,
\* and whether an exception escaped.
RECURSIVE invokeAll(_, _, _, _, _)
invokeAll(callbacks, i, event, address, log) ==
    IF i > Len(callbacks) THEN [log |-> log, escaped |-> FALSE]
    ELSE IF callbacks[i] = "throws_other"
    THEN [log |-> Append(log, Event(event, address, i, callbacks[i])),
          escaped |-> TRUE]
    ELSE invokeAll(callbacks, i + 1, event, address,
                   Append(log, Event(event, address, i, callbacks[i])))

\* void AcquisitionScheduler::storeSample(sample)
storeSample(address) ==
    invokeAll(sample_callbacks_, 1, "sample_callback", address,
              Append(pollLog, Event("push", address, Len(sample_callbacks_), "")))

\* void AcquisitionScheduler::notifyError(error_message)
notifyError(address) ==
    invokeAll(error_callbacks_, 1, "error_callback", address, pollLog)

\* statistics_.total_polls++; if (!samples.empty()) successful_polls++;
\* else { failed_polls++; last_error = "No samples acquired"; }
countPollSuccessful(statistics, acquired) ==
    [statistics EXCEPT !.total_polls = @ + 1, !.successful_polls = @ + 1]
countPoll(statistics, acquired) ==
    IF acquired
    THEN [statistics EXCEPT !.total_polls = @ + 1, !.successful_polls = @ + 1]
    ELSE [statistics EXCEPT !.total_polls = @ + 1, !.failed_polls = @ + 1,
                            !.last_error = "No samples acquired"]

\* readSingleRegister(): double gain = (it != register_configs_.end()) ?
\* it->second.gain : 1.0;
DefaultGain == 1
gain(register_configs, address) ==
    IF address \in DOMAIN register_configs THEN register_configs[address]
    ELSE DefaultGain

\* readMultipleRegisters(): auto sample = readSingleRegister(address);
\* if (sample) samples.push_back(*sample); and on to the next address, or
\* back in performPollCycle() when there is none.
afterReadAbort(cycle, outcome) ==
    [cycle EXCEPT
        !.samples = IF outcome = "value" THEN Append(@, cycle.addresses[cycle.next])
                    ELSE @,
        !.next = @ + 1,
        !.pc = IF outcome = "value" /\ cycle.next < Len(cycle.addresses) THEN "read"
               ELSE IF outcome = "value" \/ cycle.samples # <<>> THEN "store"
               ELSE "statistics"]
afterRead(cycle, outcome) ==
    [cycle EXCEPT
        !.samples = IF outcome = "value" THEN Append(@, cycle.addresses[cycle.next])
                    ELSE @,
        !.next = @ + 1,
        !.pc = IF cycle.next < Len(cycle.addresses) THEN "read"
               ELSE IF outcome = "value" \/ cycle.samples # <<>> THEN "store"
               ELSE "statistics"]

\* The registers a configuration or a caller may name, and the callbacks
\* registered.
RegisterVectors == {<<>>, <<1, 0>>}

SchedulerInit ==
    /\ RingConstructed
    /\ RleIdle
    /\ WordIdle
    /\ CodecIdle
    /\ FotaIdle
    /\ ConfigIdle
    /\ SchedulerMemoryConstructed
    /\ minimum_registers_ \in RegisterVectors
    /\ config_ = SchedulerConfig(DefaultPollingInterval, minimum_registers_)

\* ---- calls from other threads ----
\* void AcquisitionScheduler::startPolling()
StartPolling ==
    /\ ~Terminated
    /\ controllerPc = "ready"
    /\ schedulerCall' = Called("startPolling", polling_active_)
    /\ IF AlreadyPolling(polling_active_)
       THEN UNCHANGED <<polling_active_, stop_requested_, pollLoops>>
       ELSE /\ stop_requested_' = FALSE
            /\ polling_active_' = TRUE
            /\ pollLoops' = Append(pollLoops, NewLoop)
    /\ UNCHANGED <<controllerPc, register_configs_, minimum_registers_, config_,
                   sample_callbacks_, error_callbacks_, statistics_,
                   circularSize, pollLog, cycles>>
    /\ UNCHANGED schedulerOthers

\* void AcquisitionScheduler::stopPolling(), up to polling_thread_->join()
StopPolling ==
    /\ ~Terminated
    /\ controllerPc = "ready"
    /\ schedulerCall' = Called("stopPolling", ~polling_active_)
    /\ stop_requested_' = TRUE
    /\ polling_active_' = FALSE
    /\ controllerPc' = IF pollLoops # <<>> THEN "joining" ELSE "ready"
    /\ UNCHANGED <<pollLoops, register_configs_, minimum_registers_, config_,
                   sample_callbacks_, error_callbacks_, statistics_,
                   circularSize, pollLog, cycles>>
    /\ UNCHANGED schedulerOthers

\* polling_thread_->join() returns once the loop has exited.
StopPollingReturns ==
    /\ ~Terminated
    /\ controllerPc = "joining"
    /\ pollLoops[Len(pollLoops)].pc = "exited"
    /\ pollLoops' = SubSeq(pollLoops, 1, Len(pollLoops) - 1)
    /\ controllerPc' = "ready"
    /\ UNCHANGED <<polling_active_, stop_requested_, register_configs_,
                   minimum_registers_, config_, sample_callbacks_, error_callbacks_,
                   statistics_, circularSize, pollLog, cycles, schedulerCall>>
    /\ UNCHANGED schedulerOthers

\* void AcquisitionScheduler::addSampleCallback(callback)
AddSampleCallback ==
    /\ ~Terminated
    /\ Len(sample_callbacks_) + Len(error_callbacks_) < MaxCallbacks
    /\ \E callback \in CallbackBehaviours :
          sample_callbacks_' = Append(sample_callbacks_, callback)
    /\ UNCHANGED <<polling_active_, stop_requested_, pollLoops, controllerPc,
                   register_configs_, minimum_registers_, config_, error_callbacks_,
                   statistics_, circularSize, pollLog, cycles, schedulerCall>>
    /\ UNCHANGED schedulerOthers

\* void AcquisitionScheduler::addErrorCallback(callback)
AddErrorCallback ==
    /\ ~Terminated
    /\ Len(sample_callbacks_) + Len(error_callbacks_) < MaxCallbacks
    /\ \E callback \in ErrorCallbackBehaviours :
          error_callbacks_' = Append(error_callbacks_, callback)
    /\ UNCHANGED <<polling_active_, stop_requested_, pollLoops, controllerPc,
                   register_configs_, minimum_registers_, config_, sample_callbacks_,
                   statistics_, circularSize, pollLog, cycles, schedulerCall>>
    /\ UNCHANGED schedulerOthers

\* void AcquisitionScheduler::resetStatistics()
ResetStatistics ==
    /\ ~Terminated
    /\ statistics_' = NoStatistics
    /\ UNCHANGED <<polling_active_, stop_requested_, pollLoops, controllerPc,
                   register_configs_, minimum_registers_, config_, sample_callbacks_,
                   error_callbacks_, circularSize, pollLog, cycles,
                   schedulerCall>>
    /\ UNCHANGED schedulerOthers

\* ---- the steps of a pollingLoop() thread ----
\* What a step of a poll thread leaves alone besides what it names.
LoopFrame ==
    /\ UNCHANGED <<polling_active_, stop_requested_, controllerPc,
                   register_configs_, minimum_registers_, config_, sample_callbacks_,
                   error_callbacks_, schedulerCall>>
    /\ UNCHANGED schedulerOthers

\* while (!stop_requested_.load())
leavesNever(stop_requested) == FALSE
leaves(stop_requested) == stop_requested

LoopCheck ==
    /\ ~Terminated
    /\ \E t \in 1..Len(pollLoops) :
          /\ pollLoops[t].pc = "check"
          /\ stop_requested_ \/ cycles < MaxCycles
          /\ pollLoops' = [pollLoops EXCEPT ![t].pc =
                             IF leaves(stop_requested_) THEN "exited"
                             ELSE "collect"]
    /\ UNCHANGED <<statistics_, circularSize, pollLog, cycles>>
    /\ LoopFrame

\* performPollCycle(): addresses_to_read
CollectAddresses ==
    /\ ~Terminated
    /\ \E t \in 1..Len(pollLoops) :
          /\ pollLoops[t].pc = "collect"
          /\ pollLoops' = [pollLoops EXCEPT ![t] =
                [pc |-> IF addressesToRead = <<>> THEN "statistics" ELSE "read",
                 addresses |-> addressesToRead, next |-> 1,
                 samples |-> <<>>, stored |-> 0,
                 configured |-> [registers |-> register_configs_,
                                 minimum |-> minimum_registers_]]]
    /\ pollLog' = <<Event("cycle", NoAddress, Len(error_callbacks_), "")>>
    /\ cycles' = cycles + 1
    /\ UNCHANGED <<statistics_, circularSize>>
    /\ LoopFrame

\* readMultipleRegisters(): readSingleRegister(address) for the next
\* address; an exception of the adapter is caught and logged there.
ReadRegister ==
    /\ ~Terminated
    /\ \E t \in 1..Len(pollLoops), outcome \in ReadOutcomes :
          /\ pollLoops[t].pc = "read"
          /\ pollLoops' = [pollLoops EXCEPT ![t] = afterRead(pollLoops[t], outcome)]
          /\ pollLog' = Append(pollLog,
                Event("read", pollLoops[t].addresses[pollLoops[t].next],
                      IF outcome = "value"
                      THEN gain(register_configs_,
                                pollLoops[t].addresses[pollLoops[t].next])
                      ELSE 0,
                      outcome))
    /\ UNCHANGED <<statistics_, circularSize, cycles>>
    /\ LoopFrame

\* for (const auto& sample : samples) storeSample(sample);
StoreSample ==
    /\ ~Terminated
    /\ \E t \in 1..Len(pollLoops) :
          /\ pollLoops[t].pc = "store"
          /\ \E stored \in {storeSample(pollLoops[t].samples[pollLoops[t].stored + 1])} :
                /\ pollLog' = stored.log
                /\ pollLoops' = [pollLoops EXCEPT
                      ![t].stored = @ + 1,
                      ![t].pc =
                          IF stored.escaped THEN "terminated"
                          ELSE IF pollLoops[t].stored + 1 < Len(pollLoops[t].samples)
                          THEN "store"
                          ELSE "statistics"]
    /\ circularSize' = GrowSize(circularSize)
    /\ UNCHANGED <<statistics_, cycles>>
    /\ LoopFrame

\* { std::lock_guard lock(stats_mutex_); ... } and the return of
\* performPollCycle(), where its local vectors end.
UpdateStatistics ==
    /\ ~Terminated
    /\ \E t \in 1..Len(pollLoops) :
          /\ pollLoops[t].pc = "statistics"
          /\ statistics_' = countPoll(statistics_, pollLoops[t].samples # <<>>)
          /\ pollLoops' = [pollLoops EXCEPT ![t] = [NewLoop EXCEPT !.pc = "drain"]]
    /\ pollLog' = Append(pollLog, Event("statistics", NoAddress, 0, ""))
    /\ UNCHANGED <<circularSize, cycles>>
    /\ LoopFrame

\* processCircularBuffer(): nothing before BUFFER_OUTPUT_INTERVAL has
\* passed; then the samples are compressed, reported and cleared, or
\* compressWithStats throws and pollingLoop() calls notifyError().
ProcessCircularBuffer ==
    /\ ~Terminated
    /\ \E t \in 1..Len(pollLoops), outcome \in {"not_due", "drained", "throws"} :
          /\ pollLoops[t].pc = "drain"
          /\ outcome = "throws" => circularSize > 0
          /\ \E notified \in {IF outcome = "throws" THEN notifyError(NoAddress)
                              ELSE [log |-> pollLog, escaped |-> FALSE]} :
                /\ pollLog' = notified.log
                /\ pollLoops' = [pollLoops EXCEPT ![t].pc =
                      IF notified.escaped THEN "terminated" ELSE "sleep"]
          /\ circularSize' = IF outcome = "drained" THEN 0 ELSE circularSize
    /\ UNCHANGED <<statistics_, cycles>>
    /\ LoopFrame

\* std::this_thread::sleep_for(config_.polling_interval); the iteration
\* is over and its log is closed.
Sleep ==
    /\ ~Terminated
    /\ \E t \in 1..Len(pollLoops) :
          /\ pollLoops[t].pc = "sleep"
          /\ pollLoops' = [pollLoops EXCEPT ![t].pc = "check"]
    /\ pollLog' = <<>>
    /\ UNCHANGED <<statistics_, circularSize, cycles>>
    /\ LoopFrame

SchedulerNext ==
    \/ StartPolling
    \/ StopPolling
    \/ StopPollingReturns
    \/ AddSampleCallback
    \/ AddErrorCallback
    \/ ResetStatistics
    \/ LoopCheck
    \/ CollectAddresses
    \/ ReadRegister
    \/ StoreSample
    \/ UpdateStatistics
    \/ ProcessCircularBuffer
    \/ Sleep

SpecScheduler == SchedulerInit /\ [][SchedulerNext]_vars

\* The poll loops that have not returned.
AlivePollLoops == {t \in 1..Len(pollLoops) : pollLoops[t].pc # "exited"}

\* C17: startPolling() while polling starts no second poll thread and
\* changes nothing; stopPolling() while stopped changes nothing that can be
\* observed (it only stores stop_requested_, which no thread reads then);
\* at most one poll loop is alive at any time and isPolling() is true
\* exactly when the last call of the controlling thread was startPolling().
C17_StartStopIdempotence ==
    /\ [](Cardinality(AlivePollLoops) <= 1)
    /\ [](polling_active_ <=> schedulerCall.op = "startPolling")
    /\ [][(schedulerCall' # schedulerCall /\ schedulerCall'.redundant) =>
             /\ schedulerCall'.op = "startPolling" =>
                   UNCHANGED <<polling_active_, stop_requested_, pollLoops,
                               controllerPc, register_configs_,
                               minimum_registers_, config_, sample_callbacks_,
                               error_callbacks_, statistics_, circularSize,
                               pollLog, cycles>>
             /\ schedulerCall'.op = "stopPolling" =>
                   /\ pollLoops = <<>>
                   /\ UNCHANGED <<polling_active_, pollLoops, controllerPc,
                                  register_configs_, minimum_registers_, config_,
                                  sample_callbacks_, error_callbacks_,
                                  statistics_, circularSize, pollLog,
                                  cycles>>]_vars

\* startPolling() was called while a poll loop was in the middle of a cycle.
C17_Witness ==
    /\ schedulerCall.op = "startPolling"
    /\ schedulerCall.redundant
    /\ Len(pollLoops) = 1
    /\ pollLoops[1].pc = "store"
    /\ cycles = MaxCycles

\* The cycle whose log this is acquired at least one sample.
Acquired(log) ==
    \E i \in 1..Len(log) : log[i].event = "read" /\ log[i].outcome = "value"

\* C18: the statistics update of a poll cycle adds exactly one to
\* total_polls and exactly one to successful_polls (when the cycle acquired
\* a sample) or to failed_polls (otherwise, with last_error set to "No
\* samples acquired"); total_polls = successful_polls + failed_polls in
\* every state, whatever resetStatistics() calls are interleaved.
C18_PollStatistics ==
    /\ [](statistics_.total_polls =
             statistics_.successful_polls + statistics_.failed_polls)
    /\ [][(Len(pollLog') > Len(pollLog) /\ pollLog'[Len(pollLog')].event = "statistics") =>
             /\ statistics_'.total_polls = statistics_.total_polls + 1
             /\ IF Acquired(pollLog)
                THEN /\ statistics_'.successful_polls = statistics_.successful_polls + 1
                     /\ statistics_'.failed_polls = statistics_.failed_polls
                     /\ statistics_'.last_error = statistics_.last_error
                ELSE /\ statistics_'.successful_polls = statistics_.successful_polls
                     /\ statistics_'.failed_polls = statistics_.failed_polls + 1
                     /\ statistics_'.last_error = "No samples acquired"]_vars

\* A second cycle, which acquired nothing, was counted after
\* resetStatistics() had erased the count of the first.
C18_Witness ==
    /\ cycles = MaxCycles
    /\ Len(pollLoops) = 1
    /\ pollLoops[1].pc = "drain"
    /\ ~Acquired(pollLog)
    /\ statistics_.total_polls = 1
    /\ statistics_.failed_polls = 1
    /\ statistics_.last_error = "No samples acquired"

\* The addresses of the samples pushed into the ring buffer, in order.
RECURSIVE Pushed(_)
Pushed(log) ==
    IF log = <<>> THEN <<>>
    ELSE IF Head(log).event = "push" THEN <<Head(log).address>> \o Pushed(Tail(log))
    ELSE Pushed(Tail(log))

\* The positions of the log at which a read of the adapter gave a value.
Acquisitions(log) ==
    {i \in 1..Len(log) : log[i].event = "read" /\ log[i].outcome = "value"}

\* The push at position i of the log is followed by one call of each of the
\* n callbacks registered then, in registration order, and by no other call.
FannedOut(log, i) ==
    /\ i + log[i].n <= Len(log)
    /\ \A k \in 1..log[i].n :
          /\ log[i + k].event = "sample_callback"
          /\ log[i + k].address = log[i].address
          /\ log[i + k].n = k
    /\ i + log[i].n < Len(log) => log[i + log[i].n + 1].event # "sample_callback"

\* C19: every acquired sample of a cycle is pushed into the ring buffer and
\* then handed to every registered sample callback exactly once, in
\* registration order, on the polling thread; a callback that throws stops
\* neither the later callbacks, nor the later samples, nor the statistics
\* update of the cycle.
C19_SampleFanOut ==
    \A t \in 1..Len(pollLoops) :
       /\ pollLoops[t].pc # "terminated"
       /\ pollLoops[t].pc \in {"read", "store", "statistics"} =>
             Pushed(pollLog) = SubSeq(pollLoops[t].samples, 1, pollLoops[t].stored)
       /\ pollLoops[t].pc = "statistics" =>
             pollLoops[t].stored = Len(pollLoops[t].samples)
       /\ pollLoops[t].pc \in {"drain", "sleep"} =>
             /\ Len(Pushed(pollLog)) = Cardinality(Acquisitions(pollLog))
             /\ \E i \in 1..Len(pollLog) : pollLog[i].event = "statistics"
       /\ \A i \in 1..Len(pollLog) :
             pollLog[i].event = "push" => FannedOut(pollLog, i)

\* The same, in the states in which no exception has escaped the loop.
C19_WhileRunning == Terminated \/ C19_SampleFanOut

\* The positions of the log at which a read of the adapter failed, and
\* those at which error callback k was called.
FailedReads(log) ==
    {i \in 1..Len(log) : log[i].event = "read" /\ log[i].outcome # "value"}
ErrorCalls(log, k) ==
    {i \in 1..Len(log) : log[i].event = "error_callback" /\ log[i].n = k}

\* C20: by the time a poll cycle has updated its statistics, every error
\* callback that was registered when the cycle started has been called
\* once for each read of the adapter that failed in the cycle (by throwing
\* or by returning no value).
C20_AdapterErrorsReported ==
    \A t \in 1..Len(pollLoops) :
       pollLoops[t].pc = "drain" =>
          \A k \in 1..pollLog[1].n :
             Cardinality(ErrorCalls(pollLog, k)) >= Cardinality(FailedReads(pollLog))

\* The addresses read so far in the cycle whose log this is, and those
\* whose read gave a value, in order.
RECURSIVE ReadAddresses(_, _)
ReadAddresses(log, outcomes) ==
    IF log = <<>> THEN <<>>
    ELSE IF Head(log).event = "read" /\ Head(log).outcome \in outcomes
    THEN <<Head(log).address>> \o ReadAddresses(Tail(log), outcomes)
    ELSE ReadAddresses(Tail(log), outcomes)

PollingIntervals == {1000, DefaultPollingInterval}
RegisterMaps == {<<>>, 0 :> 10, (0 :> 100) @@ (1 :> 100)}

\* void AcquisitionScheduler::setPollingInterval(interval)
SetPollingInterval ==
    /\ ~Terminated
    /\ \E interval \in PollingIntervals :
          config_' = [config_ EXCEPT !.polling_interval = interval]
    /\ UNCHANGED <<polling_active_, stop_requested_, pollLoops, controllerPc,
                   register_configs_, minimum_registers_, sample_callbacks_,
                   error_callbacks_, statistics_, circularSize, pollLog,
                   cycles, schedulerCall>>
    /\ UNCHANGED schedulerOthers

\* void AcquisitionScheduler::setMinimumRegisters(registers)
SetMinimumRegisters ==
    /\ ~Terminated
    /\ \E registers \in RegisterVectors :
          /\ minimum_registers_' = registers
          /\ config_' = [config_ EXCEPT !.minimum_registers = registers]
    /\ UNCHANGED <<polling_active_, stop_requested_, pollLoops, controllerPc,
                   register_configs_, sample_callbacks_, error_callbacks_,
                   statistics_, circularSize, pollLog, cycles, schedulerCall>>
    /\ UNCHANGED schedulerOthers

\* void AcquisitionScheduler::configureRegisters(register_configs)
ConfigureRegisters ==
    /\ ~Terminated
    /\ \E register_configs \in RegisterMaps :
          register_configs_' = register_configs
    /\ UNCHANGED <<polling_active_, stop_requested_, pollLoops, controllerPc,
                   minimum_registers_, config_, sample_callbacks_,
                   error_callbacks_, statistics_, circularSize, pollLog,
                   cycles, schedulerCall>>
    /\ UNCHANGED schedulerOthers

\* A scheduler without callbacks whose configuration is changed by another
\* thread while it polls. Each setter and each step of the poll thread is
\* one step, the coarsest interleaving the unsynchronised code allows.
ReconfigureNext ==
    \/ StartPolling
    \/ StopPolling
    \/ StopPollingReturns
    \/ SetPollingInterval
    \/ SetMinimumRegisters
    \/ ConfigureRegisters
    \/ LoopCheck
    \/ CollectAddresses
    \/ ReadRegister
    \/ StoreSample
    \/ UpdateStatistics
    \/ ProcessCircularBuffer
    \/ Sleep

SpecReconfigure == SchedulerInit /\ [][ReconfigureNext]_vars

\* C22: a running cycle takes its address set and the metadata of its
\* registers from the configuration that was in force when it started; a
\* setter called meanwhile takes effect from the next cycle only.
C22_ConfigurationApplyAtomic ==
    \A t \in 1..Len(pollLoops) :
       pollLoops[t].pc \in {"read", "store", "statistics"} =>
          /\ pollLoops[t].addresses =
                addMissing(Ascending(DOMAIN pollLoops[t].configured.registers),
                           pollLoops[t].configured.minimum)
          /\ \A i \in 1..Len(pollLog) :
                (pollLog[i].event = "read" /\ pollLog[i].outcome = "value") =>
                   pollLog[i].n = gain(pollLoops[t].configured.registers,
                                       pollLog[i].address)

(***************************************************************************)
(*                 SampleBuffer called by several threads                  *)
(***************************************************************************)
\* Calls started by the threads altogether.
MaxCalls == 4

\* std::lock_guard<std::mutex> lock(mutex_): the thread goes on when no
\* thread holds the mutex.
MutexFreeAlways(owner) == TRUE
MutexFree(owner) == owner = <<>>

\* What a sequential buffer holds after push(sample).
ModelPush(contents, sample) ==
    IF Len(contents) < CAPACITY THEN Append(contents, sample)
    ELSE Append(Tail(contents), sample)

\* The getAllSamples calls in progress see the contents of the sequential
\* buffer after an operation has taken effect.
Observed(threads, contents) ==
    [t \in Threads |->
        IF threads[t].pc \in {"get_lock", "get_size", "get_copy"}
        THEN [threads[t] EXCEPT !.seen = @ \cup {contents}]
        ELSE threads[t]]

\* What a step inside a call leaves alone.
InCall ==
    /\ UNCHANGED <<pushCount, snapshot, ringOp, ringModel, ringCalls>>
    /\ UNCHANGED ringOthers

\* A thread calls push(sample), getAllSamples() or clear(); the sample is
\* the number of the call.
CallBuffer ==
    /\ ringCalls < MaxCalls
    /\ \E t \in Threads, pc \in {"push_lock", "get_lock", "clear_lock"} :
          /\ ringThreads[t].pc = "idle"
          /\ ringThreads' = [ringThreads EXCEPT ![t] =
                [IdleThread EXCEPT
                    !.pc = pc,
                    !.sample = IF pc = "push_lock" THEN ringCalls ELSE NoSample,
                    !.seen = IF pc = "get_lock" THEN {ringModel} ELSE {}]]
    /\ ringCalls' = ringCalls + 1
    /\ UNCHANGED <<buffer_, head_, size_, pushCount, snapshot, ringOp, mutex_,
                   ringModel>>
    /\ UNCHANGED ringOthers

\* std::lock_guard<std::mutex> lock(mutex_); in any of the three.
Lock ==
    /\ \E t \in Threads :
          /\ ringThreads[t].pc \in {"push_lock", "get_lock", "clear_lock"}
          /\ MutexFree(mutex_)
          /\ mutex_' = <<t>>
          /\ ringThreads' = [ringThreads EXCEPT ![t].pc =
                IF @ = "push_lock" THEN "push_write"
                ELSE IF @ = "get_lock" THEN "get_size"
                ELSE "clear_size"]
    /\ UNCHANGED <<buffer_, head_, size_>>
    /\ InCall

\* push: buffer_[head_] = sample;
PushWrite ==
    /\ \E t \in Threads :
          /\ ringThreads[t].pc = "push_write"
          /\ buffer_' = [buffer_ EXCEPT ![head_] = ringThreads[t].sample]
          /\ ringThreads' = [ringThreads EXCEPT ![t].pc = "push_head"]
    /\ UNCHANGED <<head_, size_, mutex_>>
    /\ InCall

\* push: head_ = (head_ + 1) % CAPACITY;
PushHead ==
    /\ \E t \in Threads :
          /\ ringThreads[t].pc = "push_head"
          /\ head_' = AdvanceHead(head_)
          /\ ringThreads' = [ringThreads EXCEPT ![t].pc = "push_size"]
    /\ UNCHANGED <<buffer_, size_, mutex_>>
    /\ InCall

\* push: if (size_ < CAPACITY) size_++; and the end of the lock_guard.
PushSize ==
    /\ \E t \in Threads :
          /\ ringThreads[t].pc = "push_size"
          /\ size_' = GrowSize(size_)
          /\ ringModel' = ModelPush(ringModel, ringThreads[t].sample)
          /\ ringThreads' = Observed(
                [ringThreads EXCEPT ![t].pc = "idle", ![t].last = "push"],
                ModelPush(ringModel, ringThreads[t].sample))
    /\ mutex_' = <<>>
    /\ pushCount' = pushCount + 1
    /\ snapshot' = <<>>
    /\ ringOp' = "push"
    /\ UNCHANGED <<buffer_, head_, ringCalls>>
    /\ UNCHANGED ringOthers

\* getAllSamples: result.reserve(size_); size_t start = ...;
GetSize ==
    /\ \E t \in Threads :
          /\ ringThreads[t].pc = "get_size"
          /\ ringThreads' = [ringThreads EXCEPT
                ![t].pc = "get_copy",
                ![t].count = size_,
                ![t].start = SnapshotStart]
    /\ UNCHANGED <<buffer_, head_, size_, mutex_>>
    /\ InCall

\* getAllSamples: the copy loop, the return and the end of the lock_guard.
GetCopy ==
    /\ \E t \in Threads :
          /\ ringThreads[t].pc = "get_copy"
          /\ \E result \in {[i \in 1..ringThreads[t].count |->
                               buffer_[(ringThreads[t].start + (i - 1)) % CAPACITY]]} :
                /\ ringThreads' = [ringThreads EXCEPT
                      ![t].pc = "idle",
                      ![t].last = "getAllSamples",
                      ![t].result = result]
                /\ snapshot' = result
    /\ mutex_' = <<>>
    /\ ringOp' = "getAllSamples"
    /\ UNCHANGED <<buffer_, head_, size_, pushCount, ringModel, ringCalls>>
    /\ UNCHANGED ringOthers

\* clear: size_ = 0;
ClearSize ==
    /\ \E t \in Threads :
          /\ ringThreads[t].pc = "clear_size"
          /\ size_' = 0
          /\ ringThreads' = [ringThreads EXCEPT ![t].pc = "clear_head"]
    /\ UNCHANGED <<buffer_, head_, mutex_>>
    /\ InCall

\* clear: head_ = 0; and the end of the lock_guard.
ClearHeadReturns ==
    /\ \E t \in Threads :
          /\ ringThreads[t].pc = "clear_head"
          /\ head_' = ClearHead
          /\ ringThreads' = Observed(
                [ringThreads EXCEPT ![t].pc = "idle", ![t].last = "clear"], <<>>)
    /\ ringModel' = <<>>
    /\ mutex_' = <<>>
    /\ pushCount' = 0
    /\ snapshot' = <<>>
    /\ ringOp' = "clear"
    /\ UNCHANGED <<buffer_, size_, ringCalls>>
    /\ UNCHANGED ringOthers

RingThreadsNext ==
    \/ CallBuffer
    \/ Lock
    \/ PushWrite
    \/ PushHead
    \/ PushSize
    \/ GetSize
    \/ GetCopy
    \/ ClearSize
    \/ ClearHeadReturns

SpecRingThreads == RingInit /\ [][RingThreadsNext]_vars

\* C23: push, getAllSamples and clear are mutually atomic: whatever the
\* threads do, each getAllSamples result is what a sequential buffer held
\* at some time during the call, and whenever no call holds the mutex the
\* buffer holds what the calls completed so far leave in their order of
\* completion.
C23_BufferAtomicity ==
    /\ \A t \in Threads :
          (ringThreads[t].pc = "idle" /\ ringThreads[t].last = "getAllSamples") =>
             ringThreads[t].result \in ringThreads[t].seen
    /\ mutex_ = <<>> => getAllSamples = ringModel
    /\ Cardinality({t \in Threads :
                       ringThreads[t].pc \notin {"idle", "push_lock",
                                                 "get_lock", "clear_lock"}}) <= 1

\* A getAllSamples that had to wait for a push and a clear of the other
\* thread returned the sample pushed after them.
C23_Witness ==
    /\ ringThreads[1].pc = "idle"
    /\ ringThreads[1].last = "getAllSamples"
    /\ Cardinality(ringThreads[1].seen) = 3
    /\ Len(ringThreads[1].result) = 1

\* C24: processChunk() and loop() called while the state is not DOWNLOADING
\* return at once: processChunk() returns false, no chunk is requested, no
\* state is set, and the state, the manifest, the chunk bitmap, the progress
\* counters, the scratch image, the state file and the OTA partition stay
\* as they were; a FAILED download is therefore not taken up again by
\* loop().
C24_StateErrorsInert ==
    [][(fotaCall'.op \in {"processChunk", "loop"}
        /\ progress_.state # "DOWNLOADING") =>
          /\ progress_' = progress_
          /\ manifest_' = manifest_
          /\ chunks_downloaded_' = chunks_downloaded_
          /\ firmwareFile' = firmwareFile
          /\ stateFile' = stateFile
          /\ bootCountFile' = bootCountFile
          /\ otaPartition' = otaPartition
          /\ fotaPc' = fotaPc
          /\ fotaCall'.requested = NoChunk
          /\ fotaCall'.states = <<>>
          /\ ~processChunkReturns(progress_, progress_')]_vars

\* loop() was called after a download that had received a chunk failed.
C24_Witness ==
    /\ fotaCall.op = "loop"
    /\ progress_.state = "FAILED"
    /\ progress_.chunks_received > 0
    /\ firmwareFile.exists

StrictlyAscending(addresses) ==
    \A i \in 1..(Len(addresses) - 1) : addresses[i] < addresses[i + 1]

\* C26: the addresses a poll cycle reads are exactly the configured
\* register keys together with minimum_registers, each once, and they are
\* read in ascending order of address.
C26_PollAddresses ==
    \A t \in 1..Len(pollLoops) :
       pollLoops[t].pc \in {"read", "store", "statistics"} =>
          /\ Elements(pollLoops[t].addresses) =
                DOMAIN pollLoops[t].configured.registers
                \cup Elements(pollLoops[t].configured.minimum)
          /\ ReadAddresses(pollLog, ReadOutcomes) =
                SubSeq(pollLoops[t].addresses, 1, pollLoops[t].next - 1)
          /\ StrictlyAscending(pollLoops[t].addresses)

\* The same without the order of the reads.
C26_AddressSet ==
    \A t \in 1..Len(pollLoops) :
       pollLoops[t].pc \in {"read", "store", "statistics"} =>
          /\ Elements(pollLoops[t].addresses) =
                DOMAIN pollLoops[t].configured.registers
                \cup Elements(pollLoops[t].configured.minimum)
          /\ Cardinality(Elements(pollLoops[t].addresses)) = Len(pollLoops[t].addresses)

(***************************************************************************)
(*            AcquisitionScheduler: the period of buffer output            *)
(*                                                                         *)
(* One step is one iteration of the while loop of pollingLoop():           *)
(* performPollCycle(), processCircularBuffer(), sleep_for().  The cycle    *)
(* and the output are taken to last no time at all, so the clock advances  *)
(* by the sleep only: the most regular schedule the code can produce.      *)
(***************************************************************************)
\* static constexpr std::chrono::milliseconds BUFFER_OUTPUT_INTERVAL{15000}
BUFFER_OUTPUT_INTERVAL == 15000

\* The values of polling_interval the scheduler is constructed with, in
\* milliseconds.
ConstructedIntervals == {DefaultPollingInterval, 20000}

\* The time explored, in milliseconds.
MaxTime == 60000

\* auto time_since_last = now - last_buffer_output_;
\* if (time_since_last >= BUFFER_OUTPUT_INTERVAL)
outputDue(time, last_output) == time - last_output >= BUFFER_OUTPUT_INTERVAL

\* circular_buffer_.size() after n calls of push()
RECURSIVE pushes(_, _)
pushes(sz, n) == IF n = 0 THEN sz ELSE pushes(GrowSize(sz), n - 1)

DrainInit ==
    /\ RingConstructed
    /\ RleIdle
    /\ WordIdle
    /\ CodecIdle
    /\ FotaIdle
    /\ ConfigIdle
    /\ SchedulerMemoryConstructed
    /\ minimum_registers_ \in RegisterVectors
    /\ \E interval \in ConstructedIntervals :
          config_ = SchedulerConfig(interval, minimum_registers_)

\* One iteration of while (!stop_requested_.load()) in pollingLoop():
\* acquired of the registers answer, their samples are pushed;
\* processCircularBuffer() clears the buffer when the output is due, unless
\* compressWithStats() throws, which the catch of the loop reports; the
\* thread then sleeps for config_.polling_interval.
PollIteration ==
    /\ ~Terminated
    /\ ~stop_requested_
    /\ system_clock + config_.polling_interval <= MaxTime
    /\ \E t \in 1..Len(pollLoops), acquired \in 0..Len(addressesToRead),
          outcome \in {"not_due", "drained", "throws"} :
          /\ pollLoops[t].pc = "check"
          /\ (outcome = "not_due") <=>
                ~outputDue(system_clock, last_buffer_output_)
          /\ outcome = "throws" => pushes(circularSize, acquired) > 0
          /\ statistics_' = countPoll(statistics_, acquired > 0)
          /\ circularSize' = IF outcome = "drained" THEN 0
                             ELSE pushes(circularSize, acquired)
          /\ last_buffer_output_' = IF outcome = "drained" THEN system_clock
                                    ELSE last_buffer_output_
          /\ drainLog' = IF outcome = "drained"
                         THEN Append(drainLog, system_clock) ELSE drainLog
    /\ cycles' = cycles + 1
    /\ system_clock' = system_clock + config_.polling_interval
    /\ UNCHANGED <<polling_active_, stop_requested_, pollLoops, controllerPc,
                   register_configs_, minimum_registers_, config_,
                   sample_callbacks_, error_callbacks_, pollLog,
                   schedulerCall>>
    /\ UNCHANGED <<ringVars, wordVars, codecVars, fotaVars, configVars,
                   manifestVars, rleVars>>

DrainNext ==
    \/ StartPolling
    \/ PollIteration

SpecDrain == DrainInit /\ [][DrainNext]_vars

\* C27: while a poll loop runs, the buffer is never left for more than
\* 15 s without being drained, whatever polling_interval is; two
\* consecutive drains are at least 15 s apart; an iteration in which the
\* output is due drains the buffer, also when it acquired no sample; and
\* the buffer is empty right after a drain.
C27_PeriodicDrain ==
    /\ [](AlivePollLoops # {} =>
            system_clock - last_buffer_output_ <= BUFFER_OUTPUT_INTERVAL)
    /\ [](\A i \in 2..Len(drainLog) :
            drainLog[i] - drainLog[i - 1] >= BUFFER_OUTPUT_INTERVAL)
    /\ [][(cycles' > cycles /\ outputDue(system_clock, last_buffer_output_))
             => Len(drainLog') > Len(drainLog)]_vars
    /\ [][Len(drainLog') > Len(drainLog) => circularSize' = 0]_vars

\* What does hold of the output: drains are never less than 15 s apart, the
\* buffer is empty right after one, and an iteration with nothing to
\* compress drains whenever the output is due.
C27_DrainSpacing ==
    /\ [](\A i \in 2..Len(drainLog) :
            drainLog[i] - drainLog[i - 1] >= BUFFER_OUTPUT_INTERVAL)
    /\ [][Len(drainLog') > Len(drainLog) =>
            /\ circularSize' = 0
            /\ last_buffer_output_' = system_clock]_vars
    /\ [][(cycles' > cycles /\ outputDue(system_clock, last_buffer_output_)
           /\ circularSize = 0 /\ statistics_'.failed_polls > statistics_.failed_polls)
             => Len(drainLog') > Len(drainLog)]_vars

\* A loop slower than the output period: the second iteration starts 20 s
\* after construction with nothing drained yet.
C27_SlowLoop ==
    /\ AlivePollLoops # {}
    /\ config_.polling_interval > BUFFER_OUTPUT_INTERVAL
    /\ system_clock - last_buffer_output_ > BUFFER_OUTPUT_INTERVAL

\* Two drains have happened.
C27_TwoDrains == Len(drainLog) >= 2

(***************************************************************************)
(*                 RemoteConfigHandler: acknowledgments                    *)
(***************************************************************************)
\* The nonce an ack of the cycle has to carry: doc.nonce, or the timestamp
\* of the request when the body has none.
RequestNonce(cycle) ==
    IF cycle.reply.has_nonce THEN cycle.reply.nonce ELSE cycle.request.timestamp

\* The cycle that just ran left the configuration, the scheduler and the
\* callback alone.
NothingApplied ==
    /\ acquisition_config_' = acquisition_config_
    /\ schedulerConfig' = schedulerConfig
    /\ pullCycle'.posts = <<>>
    /\ Invocations(pullCycle'.events) = 0

\* C28: a pull cycle whose GET returned 2xx with a body that has a
\* config_update object POSTs exactly one ack, which carries the nonce of
\* the request; a cycle whose GET failed, whose body does not parse or has
\* no config_update applies nothing, POSTs no ack and runs no callback.
C28_AckIffUpdate ==
    /\ [](pullCycle.op = "checkForConfigUpdate" /\ pullCycle.reply.kind = "update"
            => /\ Len(pullCycle.posts) = 1
               /\ pullCycle.posts[1].body.nonce = RequestNonce(pullCycle))
    /\ [][(pullCycle'.op = "checkForConfigUpdate"
           /\ pullCycle'.reply.kind \in {"none", "error", "unparsable", "no_update"})
             => NothingApplied]_vars

\* What does hold: an ack is POSTed, once and with the nonce of the
\* request, exactly when the config_update object has a sampling_interval
\* or a register that survives the filter; every other cycle applies
\* nothing.
C28_AckIffParsed ==
    /\ [](pullCycle.op = "checkForConfigUpdate" =>
            /\ Len(pullCycle.posts) <= 1
            /\ Len(pullCycle.posts) = 1 <=>
                  /\ pullCycle.reply.kind = "update"
                  /\ \/ pullCycle.reply.has_interval
                     \/ /\ pullCycle.reply.has_registers
                        /\ parseRegisters(pullCycle.reply.registers) # <<>>
            /\ Len(pullCycle.posts) = 1 =>
                  pullCycle.posts[1].body.nonce = RequestNonce(pullCycle))
    /\ [][(pullCycle'.op = "checkForConfigUpdate" /\ pullCycle'.posts = <<>>)
             => NothingApplied]_vars

\* A body with a nonce and a sampling_interval was acknowledged with that
\* nonce, and one without a nonce with the timestamp.
C28_NonceEchoed ==
    /\ pullCycle.op = "checkForConfigUpdate"
    /\ Len(pullCycle.posts) = 1
    /\ pullCycle.reply.has_nonce
    /\ pullCycle.posts[1].body.nonce = Nonce

\* sampling_interval_ms is exactly a thousand times the seconds pulled.
ThousandTimes(milliseconds, seconds) ==
    milliseconds % 1000 = 0 /\ milliseconds \div 1000 = seconds

\* A cycle that pulled a config_update with a sampling_interval.
PulledInterval ==
    /\ pullCycle.op = "checkForConfigUpdate"
    /\ pullCycle.reply.kind = "update"
    /\ pullCycle.reply.has_interval

\* C29: the sampling_interval_ms of the request materialized from a pulled
\* update is exactly 1000 times its sampling_interval, for every unsigned
\* 32-bit number of seconds; so a sampling_interval outside 1 .. 3600 s
\* never reaches the bounds check as a value inside 1000 .. 3,600,000 ms.
C29_IntervalConversion ==
    PulledInterval =>
        /\ pullCycle.request.has_sampling_interval
        /\ ThousandTimes(pullCycle.request.sampling_interval_ms,
                         pullCycle.reply.seconds)
        /\ pullCycle.reply.seconds \notin
              (MinSamplingInterval \div 1000)..(MaxSamplingInterval \div 1000)
              => pullCycle.request.sampling_interval_ms
                    \notin MinSamplingInterval..MaxSamplingInterval

\* What does hold: the conversion is exact for every sampling_interval up
\* to 4,294,967 s, the largest whose thousandfold fits in 32 bits.
C29_ExactBelowWrap ==
    PulledInterval /\ pullCycle.reply.seconds <= 4294967 =>
        /\ pullCycle.request.has_sampling_interval
        /\ ThousandTimes(pullCycle.request.sampling_interval_ms,
                         pullCycle.reply.seconds)

\* A sampling_interval of 3601 s was materialized as 3,601,000 ms and
\* rejected.
C29_RejectedAbove ==
    /\ PulledInterval
    /\ pullCycle.reply.seconds = 3601
    /\ pullCycle.request.sampling_interval_ms = 3601000
    /\ \E i \in 1..Len(pullCycle.ack.rejected) :
          pullCycle.ack.rejected[i].parameter = "sampling_interval"

(***************************************************************************)
(*          FOTAManager::fetchManifest: the fields at full width           *)
(*                                                                         *)
(* A uint32_t is the pair of its 16-bit halves.                            *)
(***************************************************************************)
TwoTo16 == 65536
Word32(hi, lo) == [hi |-> hi, lo |-> lo]
AllOnes == Word32(TwoTo16 - 1, TwoTo16 - 1)

\* The uint32_t an int converts to.
toUint32(n) ==
    IF n >= 0 THEN Word32(n \div TwoTo16, n % TwoTo16)
    ELSE Word32(TwoTo16 - 1 - ((-(n + 1)) \div TwoTo16),
                TwoTo16 - 1 - ((-(n + 1)) % TwoTo16))

\* manifest_obj["member"] | default
orDefault(member, default) == IF member = <<>> THEN default ELSE member[1]

\* a + b in uint32_t
add32(a, b) ==
    Word32((a.hi + b.hi + (a.lo + b.lo) \div TwoTo16) % TwoTo16,
           (a.lo + b.lo) % TwoTo16)

\* a / b in uint32_t, for a divisor 0 < b < 2^15
div32(a, b) ==
    Word32(a.hi \div b.lo, ((a.hi % b.lo) * TwoTo16 + a.lo) \div b.lo)

\* size > 0, chunk_size > 0
positive(a) == a.hi > 0 \/ a.lo > 0

\* if (manifest_.size > 0 && manifest_.chunk_size > 0)
\*     total_chunks = (size + chunk_size - 1) / chunk_size;
\* else total_chunks = 0;
totalChunks(size, chunk_size) ==
    IF positive(size) /\ positive(chunk_size)
    THEN div32(add32(add32(size, chunk_size), AllOnes), chunk_size)
    ELSE NoWord

\* fetchManifest(): "Extract manifest fields" to manifest_.valid
extractFields(obj, size, chunk_size) ==
    [version |-> obj.version,
     size |-> size,
     hash |-> obj.hash,
     chunk_size |-> chunk_size,
     total_chunks |-> totalChunks(size, chunk_size),
     valid |-> obj.version # "" /\ positive(size) /\ obj.hash # NoHash,
     extracted |-> TRUE]
extractManifest(obj) ==
    extractFields(obj, toUint32(orDefault(obj.size, 0)),
                  toUint32(orDefault(obj.chunk_size, 1024)))

\* The manifests explored: size absent, 0, small, a multiple of the chunk
\* size and one more, the largest int, and -1, which converts to
\* 4,294,967,295; chunk_size absent, 0 and values below 2^15.
JsonSizes ==
    {<<>>, <<0>>, <<1>>, <<6>>, <<1024>>, <<1025>>, <<2147483647>>, <<-1>>}
JsonChunkSizes == {<<>>, <<0>>, <<1>>, <<1024>>, <<4096>>}
ManifestObjects ==
    [version : {"", NewVersion}, size : JsonSizes,
     hash : {NoHash, Sha256Hex(FirmwareImage)}, chunk_size : JsonChunkSizes]

ManifestInit ==
    /\ RingConstructed
    /\ RleIdle
    /\ WordIdle
    /\ CodecIdle
    /\ ConfigIdle
    /\ SchedulerIdle
    /\ FotaMemoryConstructed
    /\ fotaPc = "boot"
    /\ stateFile = NoStateFile
    /\ firmwareFile = NoFirmwareFile
    /\ bootCountFile = NoBootCountFile
    /\ otaPartition = FactoryState
    /\ fotaCall = NoCall
    /\ security_ = TRUE
    /\ cloudManifest = NoManifest
    /\ manifest_obj \in ManifestObjects
    /\ wideManifest = [version |-> "", size |-> NoWord, hash |-> NoHash,
                       chunk_size |-> NoWord, total_chunks |-> NoWord,
                       valid |-> FALSE, extracted |-> FALSE]

ExtractManifest ==
    /\ ~wideManifest.extracted
    /\ wideManifest' = extractManifest(manifest_obj)
    /\ UNCHANGED <<manifest_obj, clockVars, ringVars, wordVars, codecVars,
                   fotaVars, configVars, schedulerVars, rleVars>>

ManifestNext == ExtractManifest

SpecManifest == ManifestInit /\ [][ManifestNext]_vars

\* ceil(size / chunk_size) for size > 0: (size - 1) / chunk_size + 1, in
\* which nothing exceeds 32 bits.
ceilDiv(size, chunk_size) ==
    add32(div32(add32(size, AllOnes), chunk_size), Word32(0, 1))

\* C30: an extracted manifest with size > 0 and chunk_size > 0 has
\* total_chunks = ceil(size / chunk_size); one with chunk_size = 0 has
\* total_chunks = 0; and valid is true exactly when version is not empty,
\* size > 0 and hash is not empty.
C30_ManifestChunkCount ==
    wideManifest.extracted =>
        /\ (positive(wideManifest.size) /\ positive(wideManifest.chunk_size))
              => wideManifest.total_chunks
                    = ceilDiv(wideManifest.size, wideManifest.chunk_size)
        /\ ~positive(wideManifest.chunk_size)
              => wideManifest.total_chunks = NoWord
        /\ wideManifest.valid <=>
              /\ wideManifest.version # ""
              /\ positive(wideManifest.size)
              /\ wideManifest.hash # NoHash

\* What does hold: the same, for every size up to 2^32 - 2^16, where
\* size + chunk_size - 1 fits in 32 bits.
C30_BelowWrap ==
    wideManifest.extracted =>
        /\ (positive(wideManifest.size) /\ positive(wideManifest.chunk_size)
            /\ wideManifest.size.hi < TwoTo16 - 1)
              => wideManifest.total_chunks
                    = ceilDiv(wideManifest.size, wideManifest.chunk_size)
        /\ ~positive(wideManifest.chunk_size)
              => wideManifest.total_chunks = NoWord
        /\ wideManifest.valid <=>
              /\ wideManifest.version # ""
              /\ positive(wideManifest.size)
              /\ wideManifest.hash # NoHash

\* The largest int in chunks of 1024: 2,097,152 chunks.
C30_LargestInt ==
    /\ wideManifest.extracted
    /\ wideManifest.size = Word32(32767, 65535)
    /\ wideManifest.chunk_size = Word32(0, 1024)
    /\ wideManifest.total_chunks = Word32(32, 0)
    /\ wideManifest.valid

(***************************************************************************)
(*          DeltaCompression: one run through the RLE primitives           *)
(***************************************************************************)
\* The runs explored: every delta of WordSamples with a count of one, of a
\* few, and around the one-byte varint boundary.
RunCounts == {1, 2, 3, 127, 128, 300}
Run(delta, count) == [delta |-> delta, count |-> count]

RunInit ==
    /\ RingConstructed
    /\ WordIdle
    /\ CodecIdle
    /\ FotaIdle
    /\ ConfigIdle
    /\ SchedulerIdle
    /\ \E delta \in WordSamples, count \in RunCounts :
          rleRun = <<Run(delta, count)>>
    /\ rleRunBytes = <<>>
    /\ rleRunBack = <<>>
    /\ rleDeltas = <<>>
    /\ rleArrayBytes = <<>>
    /\ rleArrayBack = <<>>

rleRunOthers ==
    <<rleDeltas, rleArrayBytes, rleArrayBack, manifestVars, clockVars,
      ringVars, wordVars, codecVars, fotaVars, configVars, schedulerVars>>

EncodeDeltaRLE ==
    /\ rleRunBytes = <<>>
    /\ rleRunBytes' = encodeDeltaRLE(rleRun[1].delta, rleRun[1].count)
    /\ UNCHANGED <<rleRun, rleRunBack>>
    /\ UNCHANGED rleRunOthers

DecodeDeltaRLE ==
    /\ rleRunBytes # <<>>
    /\ rleRunBack = <<>>
    /\ rleRunBack' = <<decodeDeltaRLE(rleRunBytes, StartPos)>>
    /\ UNCHANGED <<rleRun, rleRunBytes>>
    /\ UNCHANGED rleRunOthers

RunNext == EncodeDeltaRLE \/ DecodeDeltaRLE

SpecRun == RunInit /\ [][RunNext]_vars

\* decodeDeltaRLE gave back the run and stopped behind its last byte.
RunRestored ==
    /\ rleRunBack[1].pos.st = "ok"
    /\ rleRunBack[1].pos.offset = Len(rleRunBytes)
    /\ rleRunBack[1].delta = rleRun[1].delta
    /\ rleRunBack[1].count = FromNat(rleRun[1].count)

\* C31: decodeDeltaRLE applied to the bytes of encodeDeltaRLE(d, n) returns
\* the delta d and the run length n and consumes exactly those bytes, for
\* every 64-bit delta, also one whose zigzag value has bit 63 set, and
\* every run length n >= 1.
C31_RunRoundTrip == rleRunBack # <<>> => RunRestored

\* What does hold: the run comes back whenever bit 63 of the zigzag value
\* of the delta is clear, that is for -2^62 <= d < 2^62.
C31_BelowMarker ==
    (rleRunBack # <<>>
     /\ And64(zigzagEncode(rleRun[1].delta), RLEMarker) = Zero64) => RunRestored

\* A run of 300 times the delta -1 came back from its three bytes.
C31_LongRun ==
    /\ rleRunBack # <<>>
    /\ rleRun[1] = Run(FromInt(0 - 1), 300)
    /\ Len(rleRunBytes) > 2
    /\ RunRestored

(***************************************************************************)
(*             DeltaCompression: one array through the RLE                 *)
(***************************************************************************)
\* The arrays explored: every array of up to MaxDeltas deltas out of 0, 1,
\* -1 and 2^62, and the four delta arrays of ten identical samples.
MaxDeltas == 3
DeltaAlphabet == {Zero64, One64, FromInt(0 - 1), Shl64(One64, 62)}
TenSamples ==
    [i \in 1..10 |->
        Sample(FromNat(1000), 0, 2303, Dyadic(129), <<86, 97>>, <<86>>)]
DeltaArrays ==
    UNION {[1..n -> DeltaAlphabet] : n \in 0..MaxDeltas}
    \cup {timeDeltas(TenSamples), addrDeltas(TenSamples),
          rawDeltas(TenSamples), scaledDeltas(TenSamples)}

RleArrayInit ==
    /\ RingConstructed
    /\ WordIdle
    /\ CodecIdle
    /\ FotaIdle
    /\ ConfigIdle
    /\ SchedulerIdle
    /\ rleRun = <<>>
    /\ rleRunBytes = <<>>
    /\ rleRunBack = <<>>
    /\ rleDeltas \in DeltaArrays
    /\ rleArrayBytes = <<>>
    /\ rleArrayBack = <<>>

rleArrayOthers ==
    <<rleRun, rleRunBytes, rleRunBack, manifestVars, clockVars,
      ringVars, wordVars, codecVars, fotaVars, configVars, schedulerVars>>

EncodeRLEArray ==
    /\ rleArrayBytes = <<>>
    /\ rleArrayBytes' = encodeRLEArray(rleDeltas)
    /\ UNCHANGED <<rleDeltas, rleArrayBack>>
    /\ UNCHANGED rleArrayOthers

DecodeRLEArray ==
    /\ rleArrayBytes # <<>>
    /\ rleArrayBack = <<>>
    /\ rleArrayBack' = <<decodeRLEArray(rleArrayBytes, StartPos)>>
    /\ UNCHANGED <<rleDeltas, rleArrayBytes>>
    /\ UNCHANGED rleArrayOthers

RleArrayNext == EncodeRLEArray \/ DecodeRLEArray

SpecRleArray == RleArrayInit /\ [][RleArrayNext]_vars

\* The runs written in data from pos on, read one after the other.
RECURSIVE RunsFrom(_, _)
RunsAfter(data, run) ==
    IF run.pos.st # "ok" THEN <<>>
    ELSE <<[delta |-> run.delta, count |-> run.count]>> \o RunsFrom(data, run.pos)
RunsFrom(data, pos) ==
    IF pos.offset >= Len(data) THEN <<>>
    ELSE RunsAfter(data, decodeDeltaRLE(data, pos))

\* The runs that follow the array size.
RunsWritten(data) == RunsFrom(data, readVarint(data, StartPos).pos)

RECURSIVE CountSum(_)
CountSum(runs) ==
    IF runs = <<>> THEN 0 ELSE ToNat(Head(runs).count) + CountSum(Tail(runs))

\* The bytes start with varint(N); the run lengths sum to N and no two
\* adjacent runs carry the same delta.
GreedyRuns(deltas, data, runs) ==
    /\ readVarint(data, StartPos).value = FromNat(Len(deltas))
    /\ CountSum(runs) = Len(deltas)
    /\ \A i \in 1..(Len(runs) - 1) : runs[i].delta # runs[i + 1].delta

\* decodeRLEArray gave the array back and stopped behind the last byte.
ArrayRestored ==
    /\ rleArrayBack[1].pos.st = "ok"
    /\ rleArrayBack[1].pos.offset = Len(rleArrayBytes)
    /\ rleArrayBack[1].value = rleDeltas

\* Each delta array of ten identical samples is one run of length 9.
SingleRunOfNine(deltas, runs) ==
    deltas \in {timeDeltas(TenSamples), addrDeltas(TenSamples),
                rawDeltas(TenSamples), scaledDeltas(TenSamples)}
        => runs = <<[delta |-> Zero64, count |-> FromNat(9)]>>

\* C32: the bytes of encodeRLEArray are varint(N) followed by one run per
\* maximal block of equal consecutive deltas: the run lengths sum to N and
\* no two adjacent runs carry the same delta; each delta array of ten
\* identical samples is a single run of length 9; and decodeRLEArray
\* restores the array.
C32_GreedyRle ==
    /\ rleArrayBytes # <<>> =>
          /\ GreedyRuns(rleDeltas, rleArrayBytes, RunsWritten(rleArrayBytes))
          /\ SingleRunOfNine(rleDeltas, RunsWritten(rleArrayBytes))
    /\ rleArrayBack # <<>> => ArrayRestored

\* What does hold: the same for every array whose deltas have a zigzag
\* value with bit 63 clear.
BelowMarker(deltas) ==
    \A i \in 1..Len(deltas) :
        And64(zigzagEncode(deltas[i]), RLEMarker) = Zero64
C32_GreedyBelowMarker ==
    BelowMarker(rleDeltas) =>
        /\ rleArrayBytes # <<>> =>
              /\ GreedyRuns(rleDeltas, rleArrayBytes, RunsWritten(rleArrayBytes))
              /\ SingleRunOfNine(rleDeltas, RunsWritten(rleArrayBytes))
        /\ rleArrayBack # <<>> => ArrayRestored

\* The nine zero deltas of ten identical samples came back from twelve
\* bytes: the size, the ten bytes of the marked zero and the run length.
C32_TenIdentical ==
    /\ rleArrayBack # <<>>
    /\ rleDeltas = timeDeltas(TenSamples)
    /\ Len(rleDeltas) = 9
    /\ Len(rleArrayBytes) = 12
    /\ ArrayRestored

\* ---------------------------------------------------------------------
\* applyUpdate() statement by statement.  A caller of the public
\* operations calls applyUpdate() on a manager whose firmware is verified;
\* fotaPc is the statement the call has reached.  Update.begin, each
\* Update.write, Update.end and LittleFS.open(STATE_FILE, "w") succeed or
\* fail; the result of the final POST is ignored by the code.

\* The bytes one Update.write() is handed: sizeof(buffer).
WriteBlock == 4

StepOutcomes == {"ok", "failed"}

did(o, name) == [o EXCEPT !.call.steps = Append(@, name)]
at(o, pc) == [o EXCEPT !.pc = pc]

\* if (!progress_.verified) return false; setState(WRITING);
ApplyUpdate ==
    /\ fotaPc = "running"
    /\ LET called == [StartCall(This, "applyUpdate") EXCEPT
                          !.call.applyRun = TRUE,
                          !.call.bootBefore = otaPartition.boot]
       IN Becomes(IF ~progress_.verified THEN called
                  ELSE at(setState(called, "WRITING", ""), "apply_open"))
    /\ UNCHANGED fotaOthers

\* File file = LittleFS.open(FIRMWARE_FILE, "r"); if (!file) { FAILED }
ApplyOpen ==
    /\ fotaPc = "apply_open"
    /\ Becomes(IF ~firmwareFile.exists
               THEN at(setState(This, "FAILED", "Cannot open firmware file"),
                       "running")
               ELSE at(This, "apply_begin"))
    /\ UNCHANGED fotaOthers

\* if (!Update.begin(firmware_size)) { FAILED }; written = 0
ApplyBegin ==
    /\ fotaPc = "apply_begin"
    /\ \E outcome \in StepOutcomes :
          Becomes(IF outcome = "failed"
                  THEN at(setState(This, "FAILED", "OTA begin failed"), "running")
                  ELSE at([This EXCEPT !.ota.image = <<>>],
                          IF Len(firmwareFile.bytes) = 0 THEN "apply_end"
                          ELSE "apply_write"))
    /\ UNCHANGED fotaOthers

\* One pass of while (file.available()): read a block, Update.write it;
\* if (w != read) { Update.abort(); FAILED; return false; }
ApplyWrite ==
    /\ fotaPc = "apply_write"
    /\ LET written == Len(otaPartition.image)
           upto == IF written + WriteBlock < Len(firmwareFile.bytes)
                   THEN written + WriteBlock ELSE Len(firmwareFile.bytes)
           block == SubSeq(firmwareFile.bytes, written + 1, upto)
       IN \E outcome \in StepOutcomes :
             Becomes(IF outcome = "failed"
                     THEN at(setState(did(This, "abort"), "FAILED", "Write error"),
                             "running")
                     ELSE at([This EXCEPT !.ota.image = @ \o block],
                             IF upto = Len(firmwareFile.bytes) THEN "apply_end"
                             ELSE "apply_write"))
    /\ UNCHANGED fotaOthers

\* if (!Update.end(true)) { FAILED }; Update.end(true) makes the written
\* partition the boot partition.
ApplyEnd ==
    /\ fotaPc = "apply_end"
    /\ \E outcome \in StepOutcomes :
          Becomes(IF outcome = "failed"
                  THEN at(setState(This, "FAILED", "OTA end failed"), "running")
                  ELSE at([This EXCEPT !.ota.boot = "updated"], "apply_rebooting"))
    /\ UNCHANGED fotaOthers

\* setState(FOTAState::REBOOTING);
ApplyRebooting ==
    /\ fotaPc = "apply_rebooting"
    /\ Becomes(at(did(setState(This, "REBOOTING", ""), "REBOOTING"), "apply_clear"))
    /\ UNCHANGED fotaOthers

\* clearBootCount();
ApplyClearBootCount ==
    /\ fotaPc = "apply_clear"
    /\ Becomes(at(did(clearBootCount(This), "clearBootCount"), "apply_save"))
    /\ UNCHANGED fotaOthers

\* saveState(); it returns false, the file untouched, when the file cannot
\* be opened for writing, and applyUpdate() does not look at what it returns.
ApplySaveState ==
    /\ fotaPc = "apply_save"
    /\ \E outcome \in StepOutcomes :
          Becomes(IF outcome = "failed"
                  THEN at(did(This, "saveState_failed"), "apply_post")
                  ELSE at(did(saveState(This), "saveState"), "apply_post"))
    /\ UNCHANGED fotaOthers

\* reportProgress(true); http_->post(..., boot_status = pending_reboot)
ApplyPost ==
    /\ fotaPc = "apply_post"
    /\ Becomes(at(did(This, "post_pending_reboot"), "apply_restart"))
    /\ UNCHANGED fotaOthers

\* delay(3000); ESP.restart();
ApplyRestart ==
    /\ fotaPc = "apply_restart"
    /\ Becomes(Applies(at(did(This, "restart"), "boot")))
    /\ UNCHANGED fotaOthers

ApplyNext ==
    \/ Begin
    \/ CheckForUpdate
    \/ StartDownload
    \/ ProcessChunk
    \/ ApplyUpdate
    \/ ApplyOpen
    \/ ApplyBegin
    \/ ApplyWrite
    \/ ApplyEnd
    \/ ApplyRebooting
    \/ ApplyClearBootCount
    \/ ApplySaveState
    \/ ApplyPost
    \/ ApplyRestart

\* The cloud offers the firmware image whole, so that it can be verified.
ApplyInit == FotaInit /\ HappyManifest(cloudManifest)

SpecApply == ApplyInit /\ [][ApplyNext]_vars

\* The steps of a successful applyUpdate(), in the order of the code.
ApplySteps ==
    <<"REBOOTING", "clearBootCount", "saveState", "post_pending_reboot", "restart">>

IsPrefix(s, t) == Len(s) <= Len(t) /\ SubSeq(t, 1, Len(s)) = s

Stepwise == fotaCall.op = "applyUpdate"
Restarted == Stepwise /\ fotaPc = "boot"
Aborted == Stepwise /\ fotaCall.steps = <<"abort">>

\* A short write: the update is aborted, the state is FAILED, the device
\* keeps running and the boot partition is the one it was.
AbortIsFinal ==
    Aborted => /\ progress_.state = "FAILED"
               /\ fotaPc = "running"
               /\ otaPartition.boot = fotaCall.bootBefore

\* The device restarts only with the state REBOOTING in the state file and
\* the boot counter gone.
PersistedBeforeRestart ==
    Restarted => /\ stateFile.exists
                 /\ stateFile.state = "REBOOTING"
                 /\ bootCountFile = NoBootCountFile

\* C33: in applyUpdate a short write to the OTA partition aborts the
\* update, leaves the state FAILED and neither restarts the device nor
\* changes the boot partition; on success the steps are, in this order,
\* state REBOOTING, boot counter cleared, state persisted,
\* boot_status = pending_reboot POSTed, restart, and the device never
\* restarts before the state is persisted.
C33_ApplyOrdering ==
    /\ AbortIsFinal
    /\ (Stepwise /\ ~Aborted) => IsPrefix(fotaCall.steps, ApplySteps)
    /\ Restarted => fotaCall.steps = ApplySteps
    /\ PersistedBeforeRestart

\* saveState() is reached in the claimed place, whatever it returns.
Reached(steps) ==
    [i \in 1..Len(steps) |->
        IF steps[i] = "saveState_failed" THEN "saveState" ELSE steps[i]]

\* What holds: the calls are made in the claimed order and a short write is
\* final; the state file holds REBOOTING at the restart when saveState()
\* could open it.
C33_OrderOfCalls ==
    /\ AbortIsFinal
    /\ (Stepwise /\ ~Aborted) => IsPrefix(Reached(fotaCall.steps), ApplySteps)
    /\ Restarted => Reached(fotaCall.steps) = ApplySteps
    /\ (Restarted /\ fotaCall.steps = ApplySteps) => PersistedBeforeRestart

\* The device restarts while the state file still says DOWNLOADING.
C33_RestartUnpersisted ==
    Restarted /\ stateFile.state = "DOWNLOADING"

\* A short write on the second block.
C33_ShortWrite ==
    Aborted /\ Len(otaPartition.image) = WriteBlock

\* ---------------------------------------------------------------------
\* The manual operations of the scheduler, called by the controlling
\* thread while the poll loop may run.  They touch no member but
\* register_configs_, which they read.

ManualAddresses == {0, 1}
WriteOutcomes == {"true", "false", "throws"}

\* A manual call, what the adapter did for each address, and what the call
\* returned: samples holds the sample(s) returned (a null pointer is the
\* empty sequence), ok what performWriteOperation() returned.
Manual(op, addresses, outcomes, samples, ok) ==
    [op |-> op, redundant |-> FALSE, addresses |-> addresses,
     outcomes |-> outcomes, samples |-> samples, ok |-> ok]
ManualSample(address, scaled_by) == [address |-> address, gain |-> scaled_by]

\* UniquePtr<AcquisitionSample> readSingleRegister(address): nullptr when
\* the adapter returns no value or throws.
readSingleRegisterAlways(register_configs, address, outcome) ==
    <<ManualSample(address, gain(register_configs, address))>>
readSingleRegister(register_configs, address, outcome) ==
    IF outcome = "value"
    THEN <<ManualSample(address, gain(register_configs, address))>>
    ELSE <<>>

\* std::vector<AcquisitionSample> readMultipleRegisters(addresses)
RECURSIVE readMultipleRegisters(_, _, _)
readMultipleRegisters(register_configs, addresses, outcomes) ==
    IF addresses = <<>> THEN <<>>
    ELSE readSingleRegister(register_configs, Head(addresses), Head(outcomes))
         \o readMultipleRegisters(register_configs, Tail(addresses), Tail(outcomes))

\* bool performWriteOperation(register_address, value): what writeRegister
\* returns, false when it throws.
performWriteOperationTrue(outcome) == TRUE
performWriteOperation(outcome) == outcome = "true"

\* The controlling thread is not inside stopPolling().  A manual call
\* changes nothing but the record of the last call, so one made right after
\* another manual call leads to no state that the same call made in its
\* place does not lead to: the calls are taken from the states whose last
\* call was not a manual one.
ManualOps == {"readSingleRegister", "readMultipleRegisters", "performWriteOperation"}
ManualCallable ==
    /\ ~Terminated
    /\ controllerPc = "ready"
    /\ schedulerCall.op \notin ManualOps

ManualFrame ==
    /\ UNCHANGED <<polling_active_, stop_requested_, pollLoops, controllerPc,
                   register_configs_, minimum_registers_, config_,
                   sample_callbacks_, error_callbacks_, statistics_,
                   circularSize, pollLog, cycles>>
    /\ UNCHANGED schedulerOthers

ReadSingleRegister ==
    /\ ManualCallable
    /\ \E address \in ManualAddresses, outcome \in ReadOutcomes :
          schedulerCall' =
              Manual("readSingleRegister", <<address>>, <<outcome>>,
                     readSingleRegister(register_configs_, address, outcome),
                     FALSE)
    /\ ManualFrame

ReadMultipleRegisters ==
    /\ ManualCallable
    /\ \E addresses \in RegisterVectors :
          \E outcomes \in [1..Len(addresses) -> ReadOutcomes] :
             schedulerCall' =
                 Manual("readMultipleRegisters", addresses, outcomes,
                        readMultipleRegisters(register_configs_, addresses,
                                              outcomes),
                        FALSE)
    /\ ManualFrame

PerformWriteOperation ==
    /\ ManualCallable
    /\ \E address \in ManualAddresses, outcome \in WriteOutcomes :
          schedulerCall' =
              Manual("performWriteOperation", <<address>>, <<outcome>>, <<>>,
                     performWriteOperation(outcome))
    /\ ManualFrame

\* The scheduler constructed with the minimum registers 1 and 0 and, by
\* configureRegisters(), told the gain of register 0.
ManualInit ==
    /\ RingConstructed
    /\ RleIdle
    /\ WordIdle
    /\ CodecIdle
    /\ FotaIdle
    /\ ConfigIdle
    /\ polling_active_ = FALSE
    /\ stop_requested_ = FALSE
    /\ pollLoops = <<>>
    /\ controllerPc = "ready"
    /\ register_configs_ = 0 :> 10
    /\ minimum_registers_ = <<1, 0>>
    /\ config_ = SchedulerConfig(DefaultPollingInterval, minimum_registers_)
    /\ sample_callbacks_ = <<>>
    /\ error_callbacks_ = <<>>
    /\ statistics_ = NoStatistics
    /\ circularSize = 0
    /\ pollLog = <<>>
    /\ cycles = 0
    /\ schedulerCall = Called("configureRegisters", FALSE)
    /\ system_clock = 0
    /\ last_buffer_output_ = system_clock
    /\ drainLog = <<>>

\* A polling scheduler with sample callbacks whose controlling thread makes
\* manual calls.
ManualNext ==
    \/ StartPolling
    \/ AddSampleCallback
    \/ ReadSingleRegister
    \/ ReadMultipleRegisters
    \/ PerformWriteOperation
    \/ LoopCheck
    \/ CollectAddresses
    \/ ReadRegister
    \/ StoreSample
    \/ UpdateStatistics
    \/ ProcessCircularBuffer
    \/ Sleep

SpecManual == ManualInit /\ [][ManualNext]_vars

\* The addresses whose read gave a value, in the order asked.
RECURSIVE Answered(_, _)
Answered(addresses, outcomes) ==
    IF addresses = <<>> THEN <<>>
    ELSE (IF Head(outcomes) = "value" THEN <<Head(addresses)>> ELSE <<>>)
         \o Answered(Tail(addresses), Tail(outcomes))

AddressesOf(samples) == [i \in 1..Len(samples) |-> samples[i].address]

\* C34: readSingleRegister, readMultipleRegisters and performWriteOperation
\* leave the sample buffer, the statistics and the history of callback
\* invocations as they were, whether the adapter succeeds or fails; a
\* failed manual read returns null, or leaves that sample out of the
\* vector, and a failed write returns false.
C34_ManualBypass ==
    /\ [][(schedulerCall' # schedulerCall /\ schedulerCall'.op \in ManualOps) =>
             UNCHANGED <<circularSize, statistics_, pollLog, pollLoops,
                         sample_callbacks_, error_callbacks_>>]_vars
    /\ [](schedulerCall.op = "readSingleRegister" =>
             /\ schedulerCall.samples = <<>> <=> schedulerCall.outcomes # <<"value">>
             /\ AddressesOf(schedulerCall.samples) =
                    Answered(schedulerCall.addresses, schedulerCall.outcomes))
    /\ [](schedulerCall.op = "readMultipleRegisters" =>
             AddressesOf(schedulerCall.samples) =
                 Answered(schedulerCall.addresses, schedulerCall.outcomes))
    /\ [](schedulerCall.op = "performWriteOperation" =>
             (schedulerCall.ok <=> schedulerCall.outcomes = <<"true">>))

\* A manual read of two registers, the second of which fails, made while a
\* poll cycle has pushed a sample to a scheduler with a callback.
C34_Witness ==
    /\ schedulerCall.op = "readMultipleRegisters"
    /\ schedulerCall.outcomes = <<"value", "throws">>
    /\ Len(schedulerCall.samples) = 1
    /\ circularSize > 0
    /\ sample_callbacks_ # <<>>
    /\ \E t \in 1..Len(pollLoops) : pollLoops[t].pc = "store"

\* ---------------------------------------------------------------------
\* stopPolling() and the poll thread.  The poll thread is scheduled again
\* and again, and each of its steps ends: the adapter answers or times out,
\* the callbacks return or throw, sleep_for() ends; join() returns when the
\* thread has ended.

PollThreadStep ==
    \/ LoopCheck
    \/ CollectAddresses
    \/ ReadRegister
    \/ StoreSample
    \/ UpdateStatistics
    \/ ProcessCircularBuffer
    \/ Sleep

StopNext ==
    \/ StartPolling
    \/ StopPolling
    \/ StopPollingReturns
    \/ AddSampleCallback
    \/ LoopCheck
    \/ CollectAddresses
    \/ ReadRegister
    \/ StoreSample
    \/ UpdateStatistics
    \/ ProcessCircularBuffer
    \/ Sleep

SpecStop ==
    /\ SchedulerInit
    /\ [][StopNext]_vars
    /\ WF_vars(PollThreadStep)
    /\ WF_vars(StopPollingReturns)

\* stopPolling() has returned and the controlling thread has made no call
\* since.
Stopped == controllerPc = "ready" /\ schedulerCall.op = "stopPolling"

\* C35: after stopPolling() is called the poll loop leaves at its next
\* loop check and starts no further cycle; stopPolling() returns, and only
\* after the loop has exited, provided adapter calls and callbacks return;
\* no sample is pushed and no callback fires after it has returned.
C35_StopTerminates ==
    /\ [][\A t \in 1..Len(pollLoops) :
             (/\ Len(pollLoops') = Len(pollLoops)
              /\ stop_requested_
              /\ pollLoops[t].pc = "check"
              /\ pollLoops'[t].pc # "check") => pollLoops'[t].pc = "exited"]_vars
    /\ [](Stopped => AlivePollLoops = {})
    /\ [][(Stopped /\ schedulerCall' = schedulerCall) =>
             UNCHANGED <<circularSize, pollLog, cycles, statistics_>>]_vars
    /\ (controllerPc = "joining") ~> (controllerPc = "ready" \/ Terminated)

\* stopPolling() has returned after a cycle that pushed samples to a
\* scheduler with a callback.
C35_Witness ==
    /\ Stopped
    /\ ~schedulerCall.redundant
    /\ cycles > 0
    /\ circularSize > 0
    /\ sample_callbacks_ # <<>>

\* ---------------------------------------------------------------------
\* Chunk accounting.

\* The number of chunks the bitmap marks received.
Marked(chunks) == Cardinality({i \in 1..Len(chunks) : chunks[i]})

ScratchImageSize == IF firmwareFile.exists THEN Len(firmwareFile.bytes) ELSE 0

Downloading == fotaPc = "running" /\ progress_.state = "DOWNLOADING"

Accounted ==
    /\ progress_.chunks_received = Marked(chunks_downloaded_)
    /\ progress_.chunks_received <= manifest_.total_chunks
    /\ progress_.bytes_received = ScratchImageSize

\* The last call fetched a chunk: the lowest index the bitmap did not mark.
LowestRequested ==
    fotaCall.requested # NoChunk =>
        /\ fotaCall.requested + 1 \in 1..Len(fotaCall.chunksBefore)
        /\ ~fotaCall.chunksBefore[fotaCall.requested + 1]
        /\ \A j \in 1..fotaCall.requested : fotaCall.chunksBefore[j]

\* C36: in every state during a download chunks_received is the number of
\* chunks the bitmap marks, it is at most total_chunks, and bytes_received
\* is the size of the scratch image; processChunk requests the lowest index
\* not yet marked, so that no index is fetched and appended twice in a
\* download.
C36_ChunkAccounting ==
    /\ Downloading => Accounted
    /\ LowestRequested

\* What holds: the accounting of a download that this run of the firmware
\* started, and the order of the requests.
C36_SinceStartDownload ==
    /\ (Downloading /\ manifest_.valid) => Accounted
    /\ LowestRequested

\* begin() has restored a download of which chunks are in the scratch image.
C36_Restored ==
    /\ Downloading
    /\ fotaCall.op = "begin"
    /\ progress_.bytes_received = 0
    /\ ScratchImageSize > 0

\* ---------------------------------------------------------------------
\* The scratch image after a restart.

\* begin() has restored a download.
RestoredDownload == Downloading /\ fotaCall.op = "begin"

\* The bytes of the chunks the bitmap marks, as the cloud slices the image.
RECURSIVE MarkedBytes(_, _, _)
MarkedBytes(chunks, i, chunk_size) ==
    IF i > Len(chunks) THEN 0
    ELSE (IF chunks[i] THEN Len(ImageSlice(i - 1, chunk_size)) ELSE 0)
         + MarkedBytes(chunks, i + 1, chunk_size)

\* C37: when the device restarts while Downloading, the scratch image on
\* flash is, after loadState, exactly the chunks that the restored bitmap
\* marks received, in order, so that the download can go on from the bitmap
\* to an image of manifest.size bytes.
C37_CrashConsistency ==
    RestoredDownload =>
        ScratchImageSize = MarkedBytes(chunks_downloaded_, 1, cloudManifest.chunk_size)

\* What holds: every chunk the restored bitmap marks is in the scratch
\* image.
C37_MarkedArePresent ==
    RestoredDownload =>
        ScratchImageSize >= MarkedBytes(chunks_downloaded_, 1, cloudManifest.chunk_size)

\* The scratch image holds a chunk that the restored bitmap does not mark.
C37_UnmarkedChunk ==
    /\ RestoredDownload
    /\ Marked(chunks_downloaded_) = 0
    /\ ScratchImageSize = Len(ImageSlice(0, cloudManifest.chunk_size))
    /\ ScratchImageSize > 0

\* ---------------------------------------------------------------------
\* The verified flag and the image that applyUpdate() writes.

\* C38: under any sequence of public calls applyUpdate() writes the scratch
\* image to the OTA partition only if the image now in the scratch file has
\* been verified against the current manifest: progress_.verified is true
\* only while that holds, and does not survive the start of a new download
\* or a failed attempt.
C38_OnlyVerifiedFlashed ==
    /\ (fotaPc = "running" /\ progress_.verified) => ImageMatchesManifest
    /\ (Stepwise /\ fotaPc = "apply_write") => ImageMatchesManifest
    /\ (Restarted /\ otaPartition.boot = "updated") =>
           otaPartition.image = FirmwareImage

\* The device restarts into an image that is one chunk of a new download.
C38_PartialImageBooted ==
    /\ Restarted
    /\ otaPartition.boot = "updated"
    /\ otaPartition.image # <<>>
    /\ Len(otaPartition.image) < ImageSize

\* ---------------------------------------------------------------------
\* checkForUpdate() during a download.

Busy == {"DOWNLOADING", "VERIFYING", "WRITING"}

\* C39: CHECKING_MANIFEST is entered from IDLE or FAILED only; a
\* checkForUpdate() made in DOWNLOADING, VERIFYING or WRITING changes
\* neither the state nor the manifest in use nor the bitmap of received
\* chunks.
C39_CheckLeavesDownload ==
    [][fotaCall'.op = "checkForUpdate" =>
          /\ progress_.state \in {"IDLE", "FAILED"}
                \/ \A i \in 1..Len(fotaCall'.states) :
                      fotaCall'.states[i] # "CHECKING_MANIFEST"
          /\ progress_.state \in Busy =>
                /\ progress_'.state = progress_.state
                /\ manifest_' = manifest_
                /\ chunks_downloaded_' = chunks_downloaded_]_vars

\* What holds: checkForUpdate() leaves the bitmap and the scratch image
\* alone.
C39_BitmapKept ==
    [][fotaCall'.op = "checkForUpdate" =>
          /\ chunks_downloaded_' = chunks_downloaded_
          /\ firmwareFile' = firmwareFile]_vars

\* A checkForUpdate() has taken a download with one chunk received to IDLE.
C39_DownloadLeft ==
    /\ fotaCall.op = "checkForUpdate"
    /\ fotaCall.states = <<"CHECKING_MANIFEST", "IDLE">>
    /\ progress_.state = "IDLE"
    /\ Marked(chunks_downloaded_) = 1
    /\ Len(chunks_downloaded_) = 3

\* ---------------------------------------------------------------------
\* Registration of callbacks and callbacks_mutex_.  storeSample() calls the
\* sample callbacks while it holds callbacks_mutex_; addSampleCallback()
\* and addErrorCallback() lock the same mutex.  A thread holds the mutex
\* exactly while it is at one of the places below, so who holds it follows
\* from where the threads are.
\*   poll thread  "store"           before circular_buffer_.push(sample)
\*                "lock_callbacks"  at the lock_guard of storeSample()
\*                "notify"          in the loop over sample_callbacks_
\*                "relock"          in a callback, at the lock_guard of
\*                                  addSampleCallback()
\*                "deadlocked"      waiting for the mutex it holds
\*   controlling thread  "locking"  at the lock_guard of addSampleCallback()

\* What a registered callback does: it returns, or it registers a further
\* callback.
CallbackActs == {"returns", "registers"}

\* std::mutex::lock() by the thread that holds the mutex is undefined: the
\* thread waits for itself, or lock() throws std::system_error.
RelockOutcomes == {"deadlock", "system_error"}

HoldsCallbacksMutex(thread) == thread.pc \in {"notify", "relock", "deadlocked"}
CallbacksMutexFree == \A t \in 1..Len(pollLoops) : ~HoldsCallbacksMutex(pollLoops[t])

\* The callbacks called since the last push.
RECURSIVE Invoked(_)
Invoked(log) ==
    IF log = <<>> THEN 0
    ELSE IF log[Len(log)].event # "sample_callback" THEN 0
    ELSE 1 + Invoked(SubSeq(log, 1, Len(log) - 1))

RegisterFrame ==
    /\ UNCHANGED <<polling_active_, stop_requested_, register_configs_,
                   minimum_registers_, config_, error_callbacks_, statistics_,
                   cycles, schedulerCall>>
    /\ UNCHANGED schedulerOthers

\* addSampleCallback(callback) is called by the controlling thread.
CallAddSampleCallback ==
    /\ controllerPc = "ready"
    /\ Len(sample_callbacks_) < MaxCallbacks
    /\ controllerPc' = "locking"
    /\ UNCHANGED <<pollLoops, sample_callbacks_, circularSize, pollLog>>
    /\ RegisterFrame

\* std::lock_guard<std::mutex> lock(callbacks_mutex_);
\* sample_callbacks_.push_back(callback); and the return.
AddSampleCallbackLocked ==
    /\ controllerPc = "locking"
    /\ CallbacksMutexFree
    /\ \E callback \in CallbackActs :
          sample_callbacks_' = Append(sample_callbacks_, callback)
    /\ controllerPc' = "ready"
    /\ UNCHANGED <<pollLoops, circularSize, pollLog>>
    /\ RegisterFrame

\* storeSample(): circular_buffer_.push(sample);
PushSample ==
    /\ \E t \in 1..Len(pollLoops) :
          /\ pollLoops[t].pc = "store"
          /\ pollLoops' = [pollLoops EXCEPT ![t].pc = "lock_callbacks"]
          /\ pollLog' = Append(pollLog,
                Event("push", pollLoops[t].samples[pollLoops[t].stored + 1],
                      Len(sample_callbacks_), ""))
    /\ circularSize' = GrowSize(circularSize)
    /\ UNCHANGED <<controllerPc, sample_callbacks_>>
    /\ RegisterFrame

\* storeSample(): std::lock_guard<std::mutex> lock(callbacks_mutex_); the
\* controlling thread holds the mutex within AddSampleCallbackLocked only.
LockCallbacks ==
    /\ \E t \in 1..Len(pollLoops) :
          /\ pollLoops[t].pc = "lock_callbacks"
          /\ pollLoops' = [pollLoops EXCEPT ![t].pc = "notify"]
    /\ UNCHANGED <<controllerPc, sample_callbacks_, circularSize, pollLog>>
    /\ RegisterFrame

\* for (const auto& callback : sample_callbacks_) try { callback(sample); }
\* and, after the last callback, the end of storeSample().
InvokeCallback ==
    /\ \E t \in 1..Len(pollLoops) :
          /\ pollLoops[t].pc = "notify"
          /\ IF Invoked(pollLog) < Len(sample_callbacks_)
             THEN /\ pollLog' = Append(pollLog,
                        Event("sample_callback",
                              pollLoops[t].samples[pollLoops[t].stored + 1],
                              Invoked(pollLog) + 1,
                              sample_callbacks_[Invoked(pollLog) + 1]))
                  /\ pollLoops' = [pollLoops EXCEPT ![t].pc =
                        IF sample_callbacks_[Invoked(pollLog) + 1] = "registers"
                        THEN "relock" ELSE "notify"]
             ELSE /\ pollLog' = Append(pollLog, Event("stored", NoAddress, 0, ""))
                  /\ pollLoops' = [pollLoops EXCEPT
                        ![t].stored = @ + 1,
                        ![t].pc = IF pollLoops[t].stored + 1 < Len(pollLoops[t].samples)
                                  THEN "store" ELSE "statistics"]
    /\ UNCHANGED <<controllerPc, sample_callbacks_, circularSize>>
    /\ RegisterFrame

\* addSampleCallback() called by a callback, on the poll thread:
\* std::lock_guard<std::mutex> lock(callbacks_mutex_) while storeSample()
\* holds the mutex.  A std::system_error leaves the callback and is caught
\* by the catch of storeSample().
Relock ==
    /\ \E t \in 1..Len(pollLoops), outcome \in RelockOutcomes :
          /\ pollLoops[t].pc = "relock"
          /\ pollLoops' = [pollLoops EXCEPT ![t].pc =
                IF outcome = "deadlock" THEN "deadlocked" ELSE "notify"]
    /\ UNCHANGED <<controllerPc, sample_callbacks_, circularSize, pollLog>>
    /\ RegisterFrame

PollThreadRegisterStep ==
    \/ LoopCheck
    \/ CollectAddresses
    \/ ReadRegister
    \/ PushSample
    \/ LockCallbacks
    \/ InvokeCallback
    \/ Relock
    \/ UpdateStatistics
    \/ ProcessCircularBuffer
    \/ Sleep

RegisterNext ==
    \/ StartPolling
    \/ CallAddSampleCallback
    \/ AddSampleCallbackLocked
    \/ LoopCheck
    \/ CollectAddresses
    \/ ReadRegister
    \/ PushSample
    \/ LockCallbacks
    \/ InvokeCallback
    \/ Relock
    \/ UpdateStatistics
    \/ ProcessCircularBuffer
    \/ Sleep

\* Both threads are scheduled again and again.
SpecRegister ==
    /\ SchedulerInit
    /\ [][RegisterNext]_vars
    /\ WF_vars(PollThreadRegisterStep)
    /\ WF_vars(AddSampleCallbackLocked)

Deadlocked == \E t \in 1..Len(pollLoops) : pollLoops[t].pc = "deadlocked"
InCallbackRegistering == \E t \in 1..Len(pollLoops) : pollLoops[t].pc = "relock"
Notifying == \E t \in 1..Len(pollLoops) : pollLoops[t].pc = "notify"

\* C40: addSampleCallback and addErrorCallback return whenever they are
\* called, from another thread while a poll cycle notifies the callbacks
\* or from inside a callback on the poll thread, and the poll loop goes on
\* afterwards.
C40_RegistrationReturns ==
    /\ (controllerPc = "locking") ~> (controllerPc = "ready")
    /\ InCallbackRegistering ~> Notifying
    /\ [](~Deadlocked)

\* What holds: a registration from another thread returns, also when a
\* poll cycle is notifying the callbacks, as long as no callback registers
\* a callback.
C40_OtherThreadReturns ==
    (controllerPc = "locking") ~> (controllerPc = "ready" \/ Deadlocked)

\* The controlling thread waits in addSampleCallback() for the poll thread,
\* which waits for the mutex it holds.
C40_BothBlocked == Deadlocked /\ controllerPc = "locking"

====
